---- MODULE Spec2Model ----
(***************************************************************************)
(* The pricing and analytics engine of the options calculator              *)
(* (src/src/utils/blackScholes.js), as a state machine of one caller that  *)
(* invokes the exported functions one at a time.  The engine keeps no      *)
(* state of its own: the state is the call in progress (the function,      *)
(* its arguments and the value it returned).                               *)
(*                                                                         *)
(* Numbers.  The strategy engine at expiration works on prices, strikes    *)
(* and premiums that are multiples of $0.25 and on whole quantities; on    *)
(* these every IEEE-754 operation the code performs is exact, and the      *)
(* model holds the same values as integers in thousandths of a dollar,     *)
(* so that toFixed(2) has something to round.  The pricer works on real    *)
(* numbers, held in fixed point with nine decimals (see "Real numbers of   *)
(* the pricer"): its values agree with the code's to about 1e-8.           *)
(***************************************************************************)
EXTENDS Integers, Sequences, FiniteSets, TLC

VARIABLES op, args, ret

vars == <<op, args, ret>>

\* ------------------------------------------------------------------------
\* JavaScript values
\* ------------------------------------------------------------------------

\* An object is a record; a property the object literal leaves out is a
\* field the record does not have.
Has(obj, field) == field \in DOMAIN obj

\* Numbers that may be infinite (maxProfit, maxLoss).
Fin(v) == [kind |-> "finite", v |-> v]
PosInfinity == [kind |-> "+Infinity", v |-> 0]
NegInfinity == [kind |-> "-Infinity", v |-> 0]

\* a < b on numbers that may be infinite.
ExtLess(a, b) ==
  IF a.kind = "+Infinity" \/ b.kind = "-Infinity" THEN FALSE
  ELSE IF a.kind = "-Infinity" \/ b.kind = "+Infinity" THEN TRUE
  ELSE a.v < b.v

\* A product that leaves the number as it is.
ExtTimes_Once(a, n) == a

\* a * n for a whole n > 0.
ExtTimes(a, n) == IF a.kind = "finite" THEN Fin(a.v * n) ELSE a

Max(a, b) == IF a >= b THEN a ELSE b

\* ------------------------------------------------------------------------
\* Real numbers of the pricer
\*
\* A number of the pricer is held in fixed point as <<whole, frac>>, the
\* value whole + frac / Unit with 0 <= frac < Unit, in units of 0.5e-9.
\* Addition, subtraction, negation and the product with a whole number are
\* exact.  A product of fractions, a quotient and the library functions
\* (Math.exp, Math.log, Math.sqrt) are cut to a multiple of 1e-9, where the
\* code rounds to 53 bits; the product with 0.5 is exact, as it is in binary
\* floating point, which is what the finer unit is for.
\* ------------------------------------------------------------------------

Unit == 2 * 10^9

Whole(n) == <<n, 0>>
\* n / 10^9
Nano(n) == <<n \div 10^9, 2 * (n % 10^9)>>
\* n / 1000
Milli(n) == <<n \div 1000, (n % 1000) * (2 * 10^6)>>

IsZero(a) == a = <<0, 0>>
IsNegative(a) == a[1] < 0
Less(a, b) == a[1] < b[1] \/ (a[1] = b[1] /\ a[2] < b[2])
LessEq(a, b) == ~Less(b, a)

Neg(a) == IF a[2] = 0 THEN <<-a[1], 0>> ELSE <<-a[1] - 1, Unit - a[2]>>

Add(a, b) ==
  IF a[2] >= Unit - b[2] THEN <<a[1] + b[1] + 1, a[2] - (Unit - b[2])>>
  ELSE <<a[1] + b[1], a[2] + b[2]>>

Sub(a, b) == Add(a, Neg(b))

\* Math.abs
Abs(a) == IF IsNegative(a) THEN Neg(a) ELSE a

\* Math.max
MaxOf(a, b) == IF Less(a, b) THEN b ELSE a

\* n * (f / Unit) for a whole n in 0..21474, exactly.
WholeTimesFrac(n, f) ==
  LET t1 == n * (f \div 10^5)
      t0 == n * (f % 10^5)
      s == t1 + t0 \div 10^5
  IN <<s \div 20000, (s % 20000) * 10^5 + (t0 % 10^5)>>

\* (x / Unit) * (y / Unit), cut to a multiple of 1e-9.
FracTimesFrac(x, y) ==
  LET x2 == x \div 10^6
      x1 == (x \div 1000) % 1000
      x0 == x % 1000
      y2 == y \div 10^6
      y1 == (y \div 1000) % 1000
      y0 == y % 1000
      c4 == x2 * y2
      c3 == x2 * y1 + x1 * y2
      c2 == x2 * y0 + x1 * y1 + x0 * y2
      c1 == x1 * y0 + x0 * y1
      c0 == x0 * y0
      carry == (c2 + (c1 + c0 \div 1000) \div 1000) \div 1000
      \* x * y / (4 * 10^9), in units of 1e-9
      nanos == (c4 \div 4) * 1000 + ((c4 % 4) * 1000 + c3 + carry) \div 4
  IN <<0, 2 * nanos>>

\* a * b for a, b >= 0.
TimesNonNeg(a, b) ==
  Add(Add(Whole(a[1] * b[1]), FracTimesFrac(a[2], b[2])),
      Add(WholeTimesFrac(a[1], b[2]), WholeTimesFrac(b[1], a[2])))

\* The magnitude of a product or quotient of a and b, with its sign.
Signed(a, b, magnitude) ==
  IF IsNegative(a) = IsNegative(b) THEN magnitude ELSE Neg(magnitude)

\* a * b, cut toward zero.
Times(a, b) == Signed(a, b, TimesNonNeg(Abs(a), Abs(b)))

Square(a) == Times(a, a)

\* 0.5 * a, exactly when a is a multiple of 1e-9.
Half(a) ==
  IF a[1] % 2 = 0 THEN <<a[1] \div 2, a[2] \div 2>>
  ELSE <<a[1] \div 2, 10^9 + a[2] \div 2>>

Times10(a) == <<a[1] * 10 + a[2] \div (2 * 10^8), (a[2] % (2 * 10^8)) * 10>>

\* The largest k in 0..9 with k * b <= r, and r - k * b.
RECURSIVE TakeOut(_, _, _)
TakeOut(r, b, k) ==
  IF k = 9 \/ Less(r, b) THEN <<k, r>> ELSE TakeOut(Sub(r, b), b, k + 1)

\* The whole part of r / b and the remainder, for r >= 0 and b > 0.
RECURSIVE WholeQuotient(_, _)
WholeQuotient(r, b) ==
  IF Less(r, b) THEN <<0, r>>
  ELSE LET above == WholeQuotient(r, Times10(b))
           digit == TakeOut(above[2], b, 0)
       IN <<above[1] * 10 + digit[1], digit[2]>>

\* The first n decimals of r / b for 0 <= r < b, as a whole number.
RECURSIVE Decimals(_, _, _, _)
Decimals(r, b, n, sofar) ==
  IF n = 0 THEN sofar
  ELSE LET digit == TakeOut(Times10(r), b, 0)
       IN Decimals(digit[2], b, n - 1, sofar * 10 + digit[1])

\* a / b for a >= 0 and b > 0, cut to a multiple of 1e-9.
WithDecimals(q, b) == <<q[1], 2 * Decimals(q[2], b, 9, 0)>>

OverNonNeg(a, b) == WithDecimals(WholeQuotient(a, b), b)

\* a / b for b # 0, cut toward zero.
Over(a, b) == Signed(a, b, OverNonNeg(Abs(a), Abs(b)))

\* a / n for a >= 0 and a whole n in 1..1000, cut to a multiple of 1e-9.
OverWhole(a, n) ==
  LET r0 == a[1] % n
      nanos == a[2] \div 2
      d2 == r0 * 1000 + nanos \div 10^6
      d1 == (d2 % n) * 1000 + ((nanos \div 1000) % 1000)
      d0 == (d1 % n) * 1000 + (nanos % 1000)
  IN <<a[1] \div n, 2 * ((d2 \div n) * 10^6 + (d1 \div n) * 1000 + d0 \div n)>>

\* sum plus the terms (-u)^k / k! for k in n..TaylorTerms, given the term
\* u^n / n!.
TaylorTerms == 14

RECURSIVE ExpSeries(_, _, _, _)
ExpSeries(u, n, term, sum) ==
  IF n > TaylorTerms \/ IsZero(term) THEN sum
  ELSE ExpSeries(u, n + 1, OverWhole(Times(term, u), n + 1),
                 IF n % 2 = 1 THEN Sub(sum, term) ELSE Add(sum, term))

\* Math.exp(-u) for u >= 0: the series below 1/2, the square of exp(-u/2)
\* above.
RECURSIVE ExpMinus(_)
ExpMinus(u) ==
  IF Less(Half(Whole(1)), u) THEN Square(ExpMinus(Half(u)))
  ELSE ExpSeries(u, 1, u, Whole(1))

\* Math.exp
Exp(x) ==
  IF IsNegative(x) THEN ExpMinus(Neg(x)) ELSE Over(Whole(1), ExpMinus(x))

\* The sum of z^k / k for the odd k in n..LogTerms, given z^n.
LogTerms == 21

RECURSIVE AtanhSeries(_, _, _)
AtanhSeries(zz, n, power) ==
  IF n > LogTerms \/ IsZero(power) THEN Whole(0)
  ELSE Add(OverWhole(power, n), AtanhSeries(zz, n + 2, Times(power, zz)))

\* Math.LN2
Ln2 == Nano(693147181)

Double(a) == Add(a, a)

\* 2 atanh(z)
TwiceAtanh(z) == Signed(z, Whole(1), Double(AtanhSeries(Square(z), 1, Abs(z))))

\* Math.log(q) for q > 0: q is brought into [1/2, 2] by doublings and
\* halvings, and there log q = 2 atanh((q - 1) / (q + 1)).
RECURSIVE Log(_)
Log(q) ==
  IF Less(Whole(2), q) THEN Add(Log(Half(q)), Ln2)
  ELSE IF Less(q, Half(Whole(1))) THEN Sub(Log(Double(q)), Ln2)
  ELSE TwiceAtanh(Over(Sub(q, Whole(1)), Add(q, Whole(1))))

\* Newton's iteration for the square root, from an estimate s > 0.
NewtonSteps == 12

RECURSIVE Newton(_, _, _)
Newton(a, s, n) ==
  IF n = 0 \/ IsZero(s) THEN s ELSE Newton(a, Half(Add(s, Over(a, s))), n - 1)

\* a, cut to a multiple of 1e-9.
CutToNano(a) == <<a[1], 2 * (a[2] \div 2)>>

\* The largest of s + 1e-9, s and s - 1e-9 whose square does not exceed a.
LargestRoot(a, s) ==
  IF LessEq(Square(Add(s, Nano(1))), a) THEN Add(s, Nano(1))
  ELSE IF LessEq(Square(s), a) THEN s
  ELSE Sub(s, Nano(1))

\* Math.sqrt(a) for a >= 0: the iteration, then the largest neighbour whose
\* square does not exceed a, so that the root of a square is exact.
Sqrt(a) ==
  IF IsZero(a) THEN a
  ELSE LargestRoot(a, CutToNano(Newton(a, MaxOf(a, Whole(1)), NewtonSteps)))

\* ------------------------------------------------------------------------
\* Normal distribution
\* ------------------------------------------------------------------------

a1 == Nano(254829592)
a2 == Neg(Nano(284496736))
a3 == Nano(1421413741)
a4 == Neg(Nano(1453152027))
a5 == Nano(1061405429)
p == Nano(327591100)

\* Math.sqrt(2)
Sqrt2 == Sqrt(Whole(2))

\* Math.PI
Pi == Add(Whole(3), Nano(141592654))

\* Math.sqrt(2 * Math.PI)
Sqrt2Pi == Sqrt(Times(Whole(2), Pi))

\* ((((a5 * t + a4) * t + a3) * t + a2) * t + a1) * t
Polynomial(t) ==
  Times(Add(Times(Add(Times(Add(Times(Add(Times(a5, t), a4), t), a3), t), a2), t), a1), t)

\* y = 1.0 - (...) * t * Math.exp(-x * x), with t = 1.0 / (1.0 + p * x)
ErfTail(x) ==
  Sub(Whole(1), Times(Polynomial(Over(Whole(1), Add(Whole(1), Times(p, x)))),
                      Exp(Neg(Square(x)))))

\* x < 0 ? -1 : 1
SignOf(x) == IF IsNegative(x) THEN Whole(-1) ELSE Whole(1)

normalCDF(x) ==
  Half(Add(Whole(1), Times(SignOf(x), ErfTail(Over(Abs(x), Sqrt2)))))

normalPDF(x) == Over(Exp(Times(Neg(Half(x)), x)), Sqrt2Pi)

\* ------------------------------------------------------------------------
\* Single-option pricer
\* ------------------------------------------------------------------------

\* d1, and d2 = d1 - sigma * Math.sqrt(T)
WithD2(d1, sigma, T) == [d1 |-> d1, d2 |-> Sub(d1, Times(sigma, Sqrt(T)))]

calculateD1D2(S, K, T, r, sigma) ==
  IF LessEq(T, Whole(0)) \/ LessEq(sigma, Whole(0)) THEN [d1 |-> Whole(0), d2 |-> Whole(0)]
  ELSE WithD2(Over(Add(Log(Over(S, K)), Times(Add(r, Times(Half(sigma), sigma)), T)),
                   Times(sigma, Sqrt(T))),
              sigma, T)

\* Math.max(0, S - K) for a call, Math.max(0, K - S) otherwise.
IntrinsicPrice(S, K, optionType) ==
  IF optionType = "call" THEN MaxOf(Whole(0), Sub(S, K)) ELSE MaxOf(Whole(0), Sub(K, S))

\* S * N(d1) - K e^(-rT) * N(d2) for a call, K e^(-rT) * N(-d2) - S * N(-d1)
\* otherwise.
ValueAt(d, S, discounted, optionType) ==
  IF optionType = "call"
  THEN Sub(Times(S, normalCDF(d.d1)), Times(discounted, normalCDF(d.d2)))
  ELSE Sub(Times(discounted, normalCDF(Neg(d.d2))), Times(S, normalCDF(Neg(d.d1))))

\* The Black-Scholes value, T > 0.
BlackScholes(S, K, T, r, sigma, optionType) ==
  ValueAt(calculateD1D2(S, K, T, r, sigma), S, Times(K, Exp(Times(Neg(r), T))), optionType)

\* A pricer that takes T = 0 for time still to run.
calculateOptionPrice_ExpiryExclusive(S, K, T, r, sigma, optionType) ==
  IF Less(T, Whole(0)) THEN IntrinsicPrice(S, K, optionType)
  ELSE BlackScholes(S, K, T, r, sigma, optionType)

calculateOptionPrice(S, K, T, r, sigma, optionType) ==
  IF LessEq(T, Whole(0)) THEN IntrinsicPrice(S, K, optionType)
  ELSE BlackScholes(S, K, T, r, sigma, optionType)

\* Greeks at expiration whose call delta is 1 at the money.
ExpiredGreeks_AtTheMoneyDelta(S, K, optionType) ==
  [delta |-> IF optionType = "call"
             THEN (IF LessEq(K, S) THEN Whole(1) ELSE Whole(0))
             ELSE (IF Less(S, K) THEN Whole(-1) ELSE Whole(0)),
   gamma |-> Whole(0), theta |-> Whole(0), vega |-> Whole(0), rho |-> Whole(0),
   price |-> IntrinsicPrice(S, K, optionType)]

\* The branch of calculateGreeks at or past expiration.
ExpiredGreeks(S, K, optionType) ==
  [delta |-> IF optionType = "call"
             THEN (IF Less(K, S) THEN Whole(1) ELSE Whole(0))
             ELSE (IF Less(S, K) THEN Whole(-1) ELSE Whole(0)),
   gamma |-> Whole(0), theta |-> Whole(0), vega |-> Whole(0), rho |-> Whole(0),
   price |-> IntrinsicPrice(S, K, optionType)]

\* -S * npd1 * sigma / (2 * sqrtT)
Decay(S, sigma, sqrtT, npd1) ==
  Over(Times(Times(Neg(S), npd1), sigma), Times(Whole(2), sqrtT))

\* The branch of calculateGreeks before expiration, from the values it
\* computes first.
LiveGreeks(S, K, T, r, sigma, optionType, d, sqrtT, expRT, npd1, price) ==
  [delta |-> IF optionType = "call" THEN normalCDF(d.d1)
             ELSE Sub(normalCDF(d.d1), Whole(1)),
   gamma |-> Over(npd1, Times(Times(S, sigma), sqrtT)),
   theta |-> Over(IF optionType = "call"
                  THEN Sub(Decay(S, sigma, sqrtT, npd1),
                           Times(Times(Times(r, K), expRT), normalCDF(d.d2)))
                  ELSE Add(Decay(S, sigma, sqrtT, npd1),
                           Times(Times(Times(r, K), expRT), normalCDF(Neg(d.d2)))),
                  Whole(365)),
   vega |-> Over(Times(Times(S, sqrtT), npd1), Whole(100)),
   rho |-> Over(IF optionType = "call"
                THEN Times(Times(Times(K, T), expRT), normalCDF(d.d2))
                ELSE Times(Times(Times(Neg(K), T), expRT), normalCDF(Neg(d.d2))),
                Whole(100)),
   price |-> price]

calculateGreeks(S, K, T, r, sigma, optionType) ==
  IF LessEq(T, Whole(0)) \/ LessEq(sigma, Whole(0)) THEN ExpiredGreeks(S, K, optionType)
  ELSE LiveGreeks(S, K, T, r, sigma, optionType,
                  calculateD1D2(S, K, T, r, sigma),
                  Sqrt(T),
                  Exp(Times(Neg(r), T)),
                  normalPDF(calculateD1D2(S, K, T, r, sigma).d1),
                  calculateOptionPrice(S, K, T, r, sigma, optionType))

\* ------------------------------------------------------------------------
\* Numbers that are not finite
\*
\* A strike of zero, a negative strike or a date that cannot be read take
\* the pricer to NaN and to infinities.  A JavaScript number is here a
\* number of the pricer, NaN, +Infinity or -Infinity, and every operation
\* follows IEEE-754 on the last three.  A fifth kind stands for an exception
\* on its way up: every operation passes it on.  Zero is +0 throughout.
\* ------------------------------------------------------------------------

JsNum(v) == [kind |-> "finite", v |-> v]
NaN == [kind |-> "NaN", v |-> Whole(0)]
Infinity == [kind |-> "+Infinity", v |-> Whole(0)]
NegativeInfinity == [kind |-> "-Infinity", v |-> Whole(0)]
Thrown == [kind |-> "thrown", v |-> Whole(0)]

\* -1, 0 or 1; NaN has no sign.
JsSign(a) ==
  IF a.kind = "+Infinity" THEN 1
  ELSE IF a.kind = "-Infinity" THEN -1
  ELSE IF IsNegative(a.v) THEN -1
  ELSE IF IsZero(a.v) THEN 0 ELSE 1

InfinityOf(sign) == IF sign < 0 THEN NegativeInfinity ELSE Infinity

\* What an operation on a and b is before any arithmetic: an exception
\* goes on, and NaN gives NaN.
Unordered(a, b) == {a.kind, b.kind} \cap {"thrown", "NaN"} # {}
Passed(a, b) == IF "thrown" \in {a.kind, b.kind} THEN Thrown ELSE NaN
BothFinite(a, b) == a.kind = "finite" /\ b.kind = "finite"

JsNeg(a) ==
  IF a.kind = "finite" THEN JsNum(Neg(a.v))
  ELSE IF a.kind = "+Infinity" THEN NegativeInfinity
  ELSE IF a.kind = "-Infinity" THEN Infinity
  ELSE a

\* Math.abs
JsAbs(a) ==
  IF a.kind = "finite" THEN JsNum(Abs(a.v))
  ELSE IF a.kind = "-Infinity" THEN Infinity
  ELSE a

\* a + b
JsPlus(a, b) ==
  IF Unordered(a, b) THEN Passed(a, b)
  ELSE IF BothFinite(a, b) THEN JsNum(Add(a.v, b.v))
  ELSE IF a.kind = "finite" THEN b
  ELSE IF b.kind = "finite" \/ a.kind = b.kind THEN a
  ELSE NaN

\* a - b
JsMinus(a, b) == JsPlus(a, JsNeg(b))

\* a * b
JsTimes(a, b) ==
  IF Unordered(a, b) THEN Passed(a, b)
  ELSE IF BothFinite(a, b) THEN JsNum(Times(a.v, b.v))
  ELSE IF JsSign(a) * JsSign(b) = 0 THEN NaN
  ELSE InfinityOf(JsSign(a) * JsSign(b))

\* a / b
JsOver(a, b) ==
  IF Unordered(a, b) THEN Passed(a, b)
  ELSE IF BothFinite(a, b)
  THEN (IF ~IsZero(b.v) THEN JsNum(Over(a.v, b.v))
        ELSE IF IsZero(a.v) THEN NaN ELSE InfinityOf(JsSign(a)))
  ELSE IF a.kind = "finite" THEN JsNum(Whole(0))
  ELSE IF b.kind = "finite"
  THEN InfinityOf(IF IsNegative(b.v) THEN -JsSign(a) ELSE JsSign(a))
  ELSE NaN

\* Math.log
JsLog(a) ==
  IF a.kind = "finite"
  THEN (IF IsNegative(a.v) THEN NaN
        ELSE IF IsZero(a.v) THEN NegativeInfinity ELSE JsNum(Log(a.v)))
  ELSE IF a.kind = "-Infinity" THEN NaN
  ELSE a

\* Math.exp
JsExp(a) ==
  IF a.kind = "finite" THEN JsNum(Exp(a.v))
  ELSE IF a.kind = "-Infinity" THEN JsNum(Whole(0))
  ELSE a

\* Math.sqrt
JsSqrt(a) ==
  IF a.kind = "finite"
  THEN (IF IsNegative(a.v) THEN NaN ELSE JsNum(Sqrt(a.v)))
  ELSE IF a.kind = "-Infinity" THEN NaN
  ELSE a

\* a < b, false when either is NaN.
JsLess(a, b) ==
  IF Unordered(a, b) THEN FALSE
  ELSE IF BothFinite(a, b) THEN Less(a.v, b.v)
  ELSE IF a.kind = b.kind THEN FALSE
  ELSE a.kind = "-Infinity" \/ b.kind = "+Infinity"

\* a <= b, false when either is NaN.
JsLessEq(a, b) == ~Unordered(a, b) /\ ~JsLess(b, a)

\* Math.max(a, b)
JsMax(a, b) ==
  IF Unordered(a, b) THEN Passed(a, b)
  ELSE IF JsLess(a, b) THEN b ELSE a

\* 0.5 * a
JsHalf(a) == IF a.kind = "finite" THEN JsNum(Half(a.v)) ELSE a

\* ------------------------------------------------------------------------
\* The pricer on numbers that may not be finite: the same expressions as
\* above, operation by operation.
\* ------------------------------------------------------------------------

\* ((((a5 * t + a4) * t + a3) * t + a2) * t + a1) * t
PolynomialJs(t) ==
  JsTimes(JsPlus(JsTimes(JsPlus(JsTimes(JsPlus(JsTimes(JsPlus(JsTimes(JsNum(a5), t),
    JsNum(a4)), t), JsNum(a3)), t), JsNum(a2)), t), JsNum(a1)), t)

\* y = 1.0 - (...) * t * Math.exp(-x * x), with t = 1.0 / (1.0 + p * x)
ErfTailJs(x) ==
  JsMinus(JsNum(Whole(1)),
          JsTimes(PolynomialJs(JsOver(JsNum(Whole(1)),
                                      JsPlus(JsNum(Whole(1)), JsTimes(JsNum(p), x)))),
                  JsExp(JsNeg(JsTimes(x, x)))))

\* normalCDF(x): for x = +Infinity, t = 0 and Math.exp(-x * x) = 0, so y = 1.
normalCDFJs(x) ==
  IF x.kind = "finite" THEN JsNum(normalCDF(x.v))
  ELSE JsHalf(JsPlus(JsNum(Whole(1)),
         JsTimes(IF JsLess(x, JsNum(Whole(0))) THEN JsNum(Whole(-1)) ELSE JsNum(Whole(1)),
                 ErfTailJs(JsOver(JsAbs(x), JsNum(Sqrt2))))))

\* normalPDF(x)
normalPDFJs(x) ==
  IF x.kind = "finite" THEN JsNum(normalPDF(x.v))
  ELSE JsOver(JsExp(JsTimes(JsNeg(JsHalf(x)), x)), JsNum(Sqrt2Pi))

\* d1, and d2 = d1 - sigma * Math.sqrt(T)
WithD2Js(d1, sigma, T) == [d1 |-> d1, d2 |-> JsMinus(d1, JsTimes(sigma, JsSqrt(T)))]

calculateD1D2Js(S, K, T, r, sigma) ==
  IF JsLessEq(T, JsNum(Whole(0))) \/ JsLessEq(sigma, JsNum(Whole(0)))
  THEN [d1 |-> JsNum(Whole(0)), d2 |-> JsNum(Whole(0))]
  ELSE WithD2Js(JsOver(JsPlus(JsLog(JsOver(S, K)),
                              JsTimes(JsPlus(r, JsTimes(JsHalf(sigma), sigma)), T)),
                       JsTimes(sigma, JsSqrt(T))),
                sigma, T)

\* Math.max(0, S - K) for a call, Math.max(0, K - S) otherwise.
IntrinsicPriceJs(S, K, optionType) ==
  IF optionType = "call" THEN JsMax(JsNum(Whole(0)), JsMinus(S, K))
  ELSE JsMax(JsNum(Whole(0)), JsMinus(K, S))

ValueAtJs(d, S, discounted, optionType) ==
  IF optionType = "call"
  THEN JsMinus(JsTimes(S, normalCDFJs(d.d1)), JsTimes(discounted, normalCDFJs(d.d2)))
  ELSE JsMinus(JsTimes(discounted, normalCDFJs(JsNeg(d.d2))),
               JsTimes(S, normalCDFJs(JsNeg(d.d1))))

calculateOptionPriceJs(S, K, T, r, sigma, optionType) ==
  IF JsLessEq(T, JsNum(Whole(0))) THEN IntrinsicPriceJs(S, K, optionType)
  ELSE ValueAtJs(calculateD1D2Js(S, K, T, r, sigma), S,
                 JsTimes(K, JsExp(JsTimes(JsNeg(r), T))), optionType)

\* S > K ? 1 : 0 for a call, S < K ? -1 : 0 otherwise.
ExpiredGreeksJs(S, K, optionType) ==
  [delta |-> IF optionType = "call"
             THEN (IF JsLess(K, S) THEN JsNum(Whole(1)) ELSE JsNum(Whole(0)))
             ELSE (IF JsLess(S, K) THEN JsNum(Whole(-1)) ELSE JsNum(Whole(0))),
   gamma |-> JsNum(Whole(0)), theta |-> JsNum(Whole(0)), vega |-> JsNum(Whole(0)),
   rho |-> JsNum(Whole(0)),
   price |-> IntrinsicPriceJs(S, K, optionType)]

\* -S * npd1 * sigma / (2 * sqrtT)
DecayJs(S, sigma, sqrtT, npd1) ==
  JsOver(JsTimes(JsTimes(JsNeg(S), npd1), sigma), JsTimes(JsNum(Whole(2)), sqrtT))

LiveGreeksJs(S, K, T, r, sigma, optionType, d, sqrtT, expRT, npd1, price) ==
  [delta |-> IF optionType = "call" THEN normalCDFJs(d.d1)
             ELSE JsMinus(normalCDFJs(d.d1), JsNum(Whole(1))),
   gamma |-> JsOver(npd1, JsTimes(JsTimes(S, sigma), sqrtT)),
   theta |-> JsOver(IF optionType = "call"
                    THEN JsMinus(DecayJs(S, sigma, sqrtT, npd1),
                                 JsTimes(JsTimes(JsTimes(r, K), expRT), normalCDFJs(d.d2)))
                    ELSE JsPlus(DecayJs(S, sigma, sqrtT, npd1),
                                JsTimes(JsTimes(JsTimes(r, K), expRT),
                                        normalCDFJs(JsNeg(d.d2)))),
                    JsNum(Whole(365))),
   vega |-> JsOver(JsTimes(JsTimes(S, sqrtT), npd1), JsNum(Whole(100))),
   rho |-> JsOver(IF optionType = "call"
                  THEN JsTimes(JsTimes(JsTimes(K, T), expRT), normalCDFJs(d.d2))
                  ELSE JsTimes(JsTimes(JsTimes(JsNeg(K), T), expRT),
                               normalCDFJs(JsNeg(d.d2))),
                  JsNum(Whole(100))),
   price |-> price]

calculateGreeksJs(S, K, T, r, sigma, optionType) ==
  IF JsLessEq(T, JsNum(Whole(0))) \/ JsLessEq(sigma, JsNum(Whole(0)))
  THEN ExpiredGreeksJs(S, K, optionType)
  ELSE LiveGreeksJs(S, K, T, r, sigma, optionType,
                    calculateD1D2Js(S, K, T, r, sigma),
                    JsSqrt(T),
                    JsExp(JsTimes(JsNeg(r), T)),
                    normalPDFJs(calculateD1D2Js(S, K, T, r, sigma).d1),
                    calculateOptionPriceJs(S, K, T, r, sigma, optionType))

\* ------------------------------------------------------------------------
\* Position P&L generator
\* ------------------------------------------------------------------------

\* A break-even that adds the premium for a put as well.
calculateBreakEven_PutAdds(K, premium, optionType) == K + premium

calculateBreakEven(K, premium, optionType) ==
  IF optionType = "call" THEN K + premium ELSE K - premium

\* ------------------------------------------------------------------------
\* Doubles of the chart generators
\*
\* The loops of generatePayoffData and generateHeatmapData add a step to a
\* price until it passes a limit, so the number of points they make depends
\* on the rounding of every sum.  A double that is not negative is held
\* here exactly, as a whole number of units of 2^-62 written in five limbs
\* of 20 bits, the most significant first; a sum, a difference, a product
\* or a quotient is formed exactly and then rounded to 53 significant bits,
\* a tie going to the even neighbour, as IEEE-754 does.  The values of the
\* generators lie between 2^-9 and 2^10, where every double is a whole
\* number of units.
\* ------------------------------------------------------------------------

LimbBase == 2^20

Significand == 53

DoubleZero == <<0, 0, 0, 0, 0>>

\* 1.0
DoubleOne == <<0, 4, 0, 0, 0>>

\* 0.25
DoubleQuarter == <<0, 1, 0, 0, 0>>

\* a + b, exactly.
Plus(a, b) ==
  LET s5 == a[5] + b[5]
      s4 == a[4] + b[4] + s5 \div LimbBase
      s3 == a[3] + b[3] + s4 \div LimbBase
      s2 == a[2] + b[2] + s3 \div LimbBase
      s1 == a[1] + b[1] + s2 \div LimbBase
  IN <<s1, s2 % LimbBase, s3 % LimbBase, s4 % LimbBase, s5 % LimbBase>>

\* a - b for a >= b, exactly.
Minus(a, b) ==
  LET t5 == a[5] - b[5]
      t4 == a[4] - b[4] + t5 \div LimbBase
      t3 == a[3] - b[3] + t4 \div LimbBase
      t2 == a[2] - b[2] + t3 \div LimbBase
      t1 == a[1] - b[1] + t2 \div LimbBase
  IN <<t1, t2 % LimbBase, t3 % LimbBase, t4 % LimbBase, t5 % LimbBase>>

\* a < b
RECURSIVE BelowFrom(_, _, _)
BelowFrom(a, b, i) ==
  IF i > 5 THEN FALSE
  ELSE IF a[i] # b[i] THEN a[i] < b[i]
  ELSE BelowFrom(a, b, i + 1)

Below(a, b) == BelowFrom(a, b, 1)

\* a * n for a whole n in 0..2000, exactly.
TimesWhole(a, n) ==
  LET p5 == a[5] * n
      p4 == a[4] * n + p5 \div LimbBase
      p3 == a[3] * n + p4 \div LimbBase
      p2 == a[2] * n + p3 \div LimbBase
      p1 == a[1] * n + p2 \div LimbBase
  IN <<p1, p2 % LimbBase, p3 % LimbBase, p4 % LimbBase, p5 % LimbBase>>

\* The whole part of a / n and the remainder, for a whole n in 1..2000.
DividedBy(a, n) ==
  LET r1 == a[1] % n
      r2 == (r1 * LimbBase + a[2]) % n
      r3 == (r2 * LimbBase + a[3]) % n
      r4 == (r3 * LimbBase + a[4]) % n
  IN [quotient |-> <<a[1] \div n, (r1 * LimbBase + a[2]) \div n,
                     (r2 * LimbBase + a[3]) \div n, (r3 * LimbBase + a[4]) \div n,
                     (r4 * LimbBase + a[5]) \div n>>,
      remainder |-> (r4 * LimbBase + a[5]) % n]

\* The number of bits of a limb.
RECURSIVE Bits(_)
Bits(d) == IF d = 0 THEN 0 ELSE 1 + Bits(d \div 2)

\* The number of bits of a.
RECURSIVE BitLengthFrom(_, _)
BitLengthFrom(a, i) ==
  IF i > 5 THEN 0
  ELSE IF a[i] # 0 THEN Bits(a[i]) + 20 * (5 - i)
  ELSE BitLengthFrom(a, i + 1)

\* The weight of the last of the 53 significant bits of a.
Ulp(a) ==
  IF BitLengthFrom(a, 1) <= Significand THEN 1
  ELSE 2^(BitLengthFrom(a, 1) - Significand)

\* a with the bits below ulp cleared, and one ulp more when up.
Nearest(a, ulp, up) ==
  IF up THEN Plus(<<a[1], a[2], a[3], a[4], a[5] - (a[5] % ulp)>>, <<0, 0, 0, 0, ulp>>)
  ELSE <<a[1], a[2], a[3], a[4], a[5] - (a[5] % ulp)>>

\* Twice the part below ulp against ulp: above half, or half and odd.
RoundsUp(twice, whole, odd) == twice > whole \/ (twice = whole /\ odd)

\* An exact value rounded to a double.
Rounded(a) ==
  Nearest(a, Ulp(a),
          RoundsUp(2 * (a[5] % Ulp(a)), Ulp(a), (a[5] \div Ulp(a)) % 2 = 1))

\* The double nearest to whole + remainder / n.
RoundedQuotient(whole, remainder, n) ==
  Nearest(whole, Ulp(whole),
          RoundsUp(2 * ((whole[5] % Ulp(whole)) * n + remainder), n * Ulp(whole),
                   (whole[5] \div Ulp(whole)) % 2 = 1))

\* a + b
Sum(a, b) == Rounded(Plus(a, b))

\* a - b for a >= b
Difference(a, b) == Rounded(Minus(a, b))

\* a * n for a whole n
Product(a, n) == Rounded(TimesWhole(a, n))

\* a / n for a whole n
Quotient(a, n) ==
  RoundedQuotient(DividedBy(a, n).quotient, DividedBy(a, n).remainder, n)

\* The number literal n / d, as 0.3 is 3 / 10.
Literal(n, d) == Quotient(TimesWhole(DoubleOne, n), d)

\* A number of quarters of a dollar.
QuarterDollars(q) == TimesWhole(DoubleQuarter, q)

\* Half a cent, in hundredths of a unit.
HalfCent == <<0, 2, 0, 0, 0>>

\* The whole number of cents in 100 * a + 0.5.
WholeCents(shifted) == shifted[1] * 2^18 + shifted[2] \div 4

\* 100 * parseFloat(a.toFixed(2)): the nearest whole number of cents, a tie
\* going up.
Cents(a) == WholeCents(Plus(TimesWhole(a, 100), HalfCent))

\* ------------------------------------------------------------------------
\* Payoff chart
\* ------------------------------------------------------------------------

\* (maxPrice - minPrice) / 100
PayoffSteps == 100

\* 100 * parseFloat((intrinsicValue - premium).toFixed(2))
PnLCents(intrinsicValue, premium) ==
  IF Below(intrinsicValue, premium)
  THEN -Cents(Difference(premium, intrinsicValue))
  ELSE Cents(Difference(intrinsicValue, premium))

\* Math.max(0, price - K) for a call, Math.max(0, K - price) otherwise.
IntrinsicDouble(price, K, optionType) ==
  IF optionType = "call"
  THEN (IF Below(K, price) THEN Difference(price, K) ELSE DoubleZero)
  ELSE (IF Below(price, K) THEN Difference(K, price) ELSE DoubleZero)

\* The point pushed for one price, in cents.
PayoffPoint(price, intrinsicValue, premium) ==
  [stockPrice |-> Cents(price),
   pnl |-> PnLCents(intrinsicValue, premium),
   intrinsic |-> Cents(intrinsicValue)]

\* One pass of the loop: the test price <= maxPrice, the body and
\* price += step.
PayoffBody(K, premium, optionType, maxPrice, step, acc) ==
  IF Below(maxPrice, acc.price) THEN acc
  ELSE [price |-> Sum(acc.price, step),
        data |-> Append(acc.data,
                        PayoffPoint(acc.price,
                                    IntrinsicDouble(acc.price, K, optionType),
                                    premium))]

\* for (let price = minPrice; price <= maxPrice; price += step): the passes
\* numbered lo..hi, in order.  The passes are split in halves, and the first
\* half is over before the second starts, only to keep the evaluation
\* shallow; a loop that has passed maxPrice makes no more points.
RECURSIVE PayoffLoop(_, _, _, _, _, _, _, _)
PayoffLoop(K, premium, optionType, maxPrice, step, lo, hi, acc) ==
  IF lo = hi THEN PayoffBody(K, premium, optionType, maxPrice, step, acc)
  ELSE LET firstHalf == PayoffLoop(K, premium, optionType, maxPrice, step,
                                   lo, (lo + hi) \div 2, acc)
       IN IF Below(maxPrice, firstHalf.price) THEN firstHalf
          ELSE PayoffLoop(K, premium, optionType, maxPrice, step,
                          (lo + hi) \div 2 + 1, hi, firstHalf)

\* The loop from minPrice on.  It ends within PayoffSteps + 2 passes: 100
\* steps cover maxPrice - minPrice but for the rounding of the sums.
PayoffFrom(K, premium, optionType, minPrice, maxPrice) ==
  PayoffLoop(K, premium, optionType, maxPrice,
             Quotient(Difference(maxPrice, minPrice), PayoffSteps),
             0, PayoffSteps + 1, [price |-> minPrice, data |-> <<>>]).data

\* generatePayoffData(K, premium, optionType, currentPrice, range) for a
\* whole currentPrice and 0 <= range <= 1, where Math.max(0, ...) leaves
\* minPrice as it is.
generatePayoffData(K, premium, optionType, currentPrice, range) ==
  PayoffFrom(K, premium, optionType,
             Product(Difference(DoubleOne, range), currentPrice),
             Product(Sum(DoubleOne, range), currentPrice))

\* ------------------------------------------------------------------------
\* Heatmap
\* ------------------------------------------------------------------------

\* const priceRange = 0.25
priceRange == Literal(1, 4)

\* (maxPrice - minPrice) / 15
HeatmapSteps == 15

\* Math.floor(daysToExpiry / 8)
DayColumns == 8

\* Math.max of two doubles
Larger(a, b) == IF Below(a, b) THEN b ELSE a

\* for (let d = 0; d <= daysToExpiry; d += dayStep) dateIntervals.push(d)
RECURSIVE DayLoop(_, _, _)
DayLoop(d, daysToExpiry, dayStep) ==
  IF d > daysToExpiry THEN <<>>
  ELSE <<d>> \o DayLoop(d + dayStep, daysToExpiry, dayStep)

\* The last day is pushed when the loop has not ended on it.
WithLastDay(days, daysToExpiry) ==
  IF days[Len(days)] # daysToExpiry THEN Append(days, daysToExpiry) ELSE days

\* dateIntervals, for a whole daysToExpiry >= 0.
DateIntervals(daysToExpiry) ==
  WithLastDay(DayLoop(0, daysToExpiry, Max(1, daysToExpiry \div DayColumns)),
              daysToExpiry)

\* for (let p = maxPrice; p >= minPrice; p -= priceStep)
\*   pricePoints.push(parseFloat(p.toFixed(2))), in cents.
RECURSIVE PricePoints(_, _, _)
PricePoints(price, minPrice, priceStep) ==
  IF Below(price, minPrice) THEN <<>>
  ELSE <<Cents(price)>> \o PricePoints(Difference(price, priceStep), minPrice, priceStep)

\* 100 * parseFloat(a.toFixed(2)) for a number of the pricer: the nearest
\* whole number of cents, a tie going away from zero.
PricerCents(a) ==
  IF IsNegative(a) THEN -(Neg(a)[1] * 100 + (Neg(a)[2] + 10^7) \div (2 * 10^7))
  ELSE a[1] * 100 + (a[2] + 10^7) \div (2 * 10^7)

\* One cell: the row price is the one pushed to pricePoints, in cents.
HeatmapCell(price, K, premium, optionType, daysToExpiry, day, sigma, r) ==
  PricerCents(Sub(calculateOptionPrice(Milli(10 * price), K,
                                       Over(Whole(daysToExpiry - day), Whole(365)),
                                       r, sigma, optionType),
                  premium))

\* One row: row[`day${day}`] for every day of dateIntervals.
HeatmapRow(price, K, premium, optionType, daysToExpiry, days, sigma, r) ==
  [stockPrice |-> price,
   day |-> [d \in {days[i] : i \in 1..Len(days)} |->
              HeatmapCell(price, K, premium, optionType, daysToExpiry, d, sigma, r)]]

\* The rows and columns, once pricePoints and dateIntervals are made.
HeatmapOf(K, premium, optionType, daysToExpiry, sigma, r, pricePoints, days) ==
  [data |-> [i \in 1..Len(pricePoints) |->
               HeatmapRow(pricePoints[i], K, premium, optionType, daysToExpiry,
                          days, sigma, r)],
   dateIntervals |-> days,
   pricePoints |-> pricePoints]

\* The price points between two prices.
PricePointsBetween(minPrice, maxPrice) ==
  PricePoints(maxPrice, minPrice,
              Quotient(Difference(maxPrice, minPrice), HeatmapSteps))

\* generateHeatmapData(K, premium, optionType, currentPrice, daysToExpiry,
\* sigma, r) for a whole currentPrice; K, premium, sigma and r are numbers
\* of the pricer.
generateHeatmapData(K, premium, optionType, currentPrice, daysToExpiry, sigma, r) ==
  HeatmapOf(K, premium, optionType, daysToExpiry, sigma, r,
            PricePointsBetween(
              Larger(DoubleOne, Product(Difference(DoubleOne, priceRange), currentPrice)),
              Product(Sum(DoubleOne, priceRange), currentPrice)),
            DateIntervals(daysToExpiry))

\* ------------------------------------------------------------------------
\* Multi-leg strategy engine (money in thousandths of a dollar)
\* ------------------------------------------------------------------------

Dollars(d) == d * 1000
Quarters(q) == q * 250

\* A default that replaces a quantity of 0 as well.
QtyDefault_ZeroToo(leg) == IF Has(leg, "qty") /\ leg.qty # 0 THEN leg.qty ELSE 1

\* const { ..., qty = 1, ... } = leg : the default applies to undefined only.
QtyDefault(leg) == IF Has(leg, "qty") THEN leg.qty ELSE 1

\* (leg.qty || 1) : the default applies to every falsy value.
QtyOrOne(leg) == IF Has(leg, "qty") /\ leg.qty # 0 THEN leg.qty ELSE 1

\* An intrinsic value that takes every leg for a put.
IntrinsicValue_CallAsPut(optionType, stockPrice, strike) ==
  Max(0, strike - stockPrice)

\* The value of one leg at expiration.
IntrinsicValue(optionType, stockPrice, strike) ==
  IF optionType = "call" THEN Max(0, stockPrice - strike)
  ELSE Max(0, strike - stockPrice)

\* A leg whose sold side is not negated.
LegPnL_IgnoresAction(leg, stockPrice) ==
  (IntrinsicValue(leg.optionType, stockPrice, leg.strike) - leg.premium)
    * 100 * QtyDefault(leg)

\* One iteration of the loop of calculateStrategyPnL, at expiration.
LegPnL(leg, stockPrice) ==
  LET multiplier == IF leg.action = "buy" THEN 1 ELSE -1
      optionValue == IntrinsicValue(leg.optionType, stockPrice, leg.strike)
  IN multiplier * (optionValue - leg.premium) * 100 * QtyDefault(leg)

RECURSIVE PnLLoop(_, _, _, _)
PnLLoop(legs, i, stockPrice, totalPnL) ==
  IF i > Len(legs) THEN totalPnL
  ELSE PnLLoop(legs, i + 1, stockPrice, totalPnL + LegPnL(legs[i], stockPrice))

\* calculateStrategyPnL(legs, stockPrice) with atExpiration = true, its
\* default and the way calculateStrategyMetrics calls it.
calculateStrategyPnL(legs, stockPrice) == PnLLoop(legs, 1, stockPrice, 0)

\* const oneDay = 24 * 60 * 60 * 1000, with an hour for the unit of time:
\* a Date is a whole number of hours since some midnight UTC.
oneDay == 24

\* daysBetween(date1, date2) for two valid dates: Math.round of a number that
\* is not negative, a tie going up.
daysBetween(date1, date2) ==
  LET elapsed == date2 - date1
      magnitude == IF elapsed < 0 THEN -elapsed ELSE elapsed
  IN (magnitude + oneDay \div 2) \div oneDay

\* const { ..., iv = 0.3 } = leg
IvDefault(leg) == IF Has(leg, "iv") THEN leg.iv ELSE Milli(300)

\* The value of one leg before expiration, once T is known.
OptionValueAt(leg, stockPrice, T, r) ==
  IF LessEq(T, Whole(0))
  THEN IF leg.optionType = "call"
       THEN MaxOf(Whole(0), Sub(stockPrice, leg.strike))
       ELSE MaxOf(Whole(0), Sub(leg.strike, stockPrice))
  ELSE calculateOptionPrice(stockPrice, leg.strike, T, r, IvDefault(leg),
                            leg.optionType)

\* T = Math.max(0, daysToExpiry / 365)
YearsLeft(daysToExpiry) == MaxOf(Whole(0), Over(Whole(daysToExpiry), Whole(365)))

\* One iteration of the loop of calculateStrategyPnL with atExpiration =
\* false.  The strike, the premium and the stock price are numbers of the
\* pricer; now is what new Date() returns.
LegPnLBefore(leg, stockPrice, now, daysFromNow, r) ==
  LET multiplier == IF leg.action = "buy" THEN 1 ELSE -1
      daysToExpiry == daysBetween(now, leg.expiration) - daysFromNow
      optionValue == OptionValueAt(leg, stockPrice, YearsLeft(daysToExpiry), r)
  IN Times(Times(Times(Whole(multiplier), Sub(optionValue, leg.premium)),
                 Whole(100)),
           Whole(QtyDefault(leg)))

RECURSIVE PnLLoopBefore(_, _, _, _, _, _, _)
PnLLoopBefore(legs, i, stockPrice, now, daysFromNow, r, totalPnL) ==
  IF i > Len(legs) THEN totalPnL
  ELSE PnLLoopBefore(legs, i + 1, stockPrice, now, daysFromNow, r,
         Add(totalPnL, LegPnLBefore(legs[i], stockPrice, now, daysFromNow, r)))

\* calculateStrategyPnL(legs, stockPrice, false, daysFromNow, r).  The clock
\* does not advance by an hour between two legs of one call.
calculateStrategyPnLBefore(legs, stockPrice, now, daysFromNow, r) ==
  PnLLoopBefore(legs, 1, stockPrice, now, daysFromNow, r, Whole(0))

\* A time to expiration without the floor.
FlooredYears_NoFloor(daysToExpiry) == Over(Whole(daysToExpiry), Whole(365))

\* T = Math.max(0.001, daysToExpiry / 365)
FlooredYears(daysToExpiry) ==
  MaxOf(Milli(1), Over(Whole(daysToExpiry), Whole(365)))

\* combined.x += greeks.x * multiplier * qty, for the five Greeks.
Combined(combined, greeks, multiplier, qty) ==
  [delta |-> Add(combined.delta, Times(Times(greeks.delta, multiplier), qty)),
   gamma |-> Add(combined.gamma, Times(Times(greeks.gamma, multiplier), qty)),
   theta |-> Add(combined.theta, Times(Times(greeks.theta, multiplier), qty)),
   vega |-> Add(combined.vega, Times(Times(greeks.vega, multiplier), qty)),
   rho |-> Add(combined.rho, Times(Times(greeks.rho, multiplier), qty))]

\* One iteration of the loop of calculateStrategyGreeks.
WithLegGreeks(combined, leg, stockPrice, now, r) ==
  LET greeks == calculateGreeks(stockPrice, leg.strike,
                                FlooredYears(daysBetween(now, leg.expiration)),
                                r, IvDefault(leg), leg.optionType)
  IN Combined(combined, greeks,
              Whole(IF leg.action = "buy" THEN 1 ELSE -1),
              Whole(QtyDefault(leg)))

RECURSIVE GreeksLoop(_, _, _, _, _, _)
GreeksLoop(legs, i, stockPrice, now, r, combined) ==
  IF i > Len(legs) THEN combined
  ELSE LET next == WithLegGreeks(combined, legs[i], stockPrice, now, r)
       IN GreeksLoop(legs, i + 1, stockPrice, now, r, next)

\* calculateStrategyGreeks(legs, stockPrice, r), called at the time now.
calculateStrategyGreeks(legs, stockPrice, now, r) ==
  GreeksLoop(legs, 1, stockPrice, now, r,
             [delta |-> Whole(0), gamma |-> Whole(0), theta |-> Whole(0),
              vega |-> Whole(0), rho |-> Whole(0)])

\* ------------------------------------------------------------------------
\* The break-even and the P&L at expiration, in doubles
\*
\* A double of either sign is its sign and its size; -0 and 0 are both of
\* size zero.
\* ------------------------------------------------------------------------

Plain(size) == [sign |-> 1, size |-> size]

Minused(size) == [sign |-> -1, size |-> size]

\* a - b for doubles that are not negative.
SignedDifference(a, b) ==
  IF Below(a, b) THEN Minused(Difference(b, a)) ELSE Plain(Difference(a, b))

\* a + b for doubles of either sign.
SignedSum(a, b) ==
  IF a.sign = b.sign THEN [sign |-> a.sign, size |-> Sum(a.size, b.size)]
  ELSE IF Below(a.size, b.size)
  THEN [sign |-> b.sign, size |-> Difference(b.size, a.size)]
  ELSE [sign |-> a.sign, size |-> Difference(a.size, b.size)]

\* A break-even that adds the premium for a put as well.
calculateBreakEvenDouble_PutAdds(K, premium, optionType) == Sum(K, premium)

\* calculateBreakEven on doubles, for a premium that is not above K.
calculateBreakEvenDouble(K, premium, optionType) ==
  IF optionType = "call" THEN Sum(K, premium) ELSE Difference(K, premium)

\* multiplier * (optionValue - premium) * 100 * qty
LegPnLOf(multiplier, difference, qty) ==
  [sign |-> multiplier * difference.sign,
   size |-> Product(Product(difference.size, 100), qty)]

\* legPnL of calculateStrategyPnL at expiration, on doubles.
LegPnLDouble(leg, stockPrice) ==
  LegPnLOf(IF leg.action = "buy" THEN 1 ELSE -1,
           SignedDifference(IntrinsicDouble(stockPrice, leg.strike, leg.optionType),
                            leg.premium),
           QtyDefault(leg))

RECURSIVE PnLLoopDouble(_, _, _, _)
PnLLoopDouble(legs, i, stockPrice, totalPnL) ==
  IF i > Len(legs) THEN totalPnL
  ELSE PnLLoopDouble(legs, i + 1, stockPrice,
                     SignedSum(totalPnL, LegPnLDouble(legs[i], stockPrice)))

\* calculateStrategyPnL(legs, stockPrice, true) on doubles.
calculateStrategyPnLDouble(legs, stockPrice) ==
  PnLLoopDouble(legs, 1, stockPrice, Plain(DoubleZero))

\* ------------------------------------------------------------------------
\* Payoff chart of a strategy at several dates
\*
\* The legs come with strike and premium as number literals n / d.  The
\* column of the last day is computed on doubles; the columns before it
\* come from the pricer, at the row's price to the cent.
\* ------------------------------------------------------------------------

\* (maxPrice - minPrice) / 50
MultiDateSteps == 50

\* The leg with its literals as doubles.
AsDoubles(leg) ==
  [leg EXCEPT !.strike = Literal(@.n, @.d), !.premium = Literal(@.n, @.d)]

\* The leg with its literals as numbers of the pricer.
AsPricerNumbers(leg) ==
  [leg EXCEPT !.strike = Over(Whole(@.n), Whole(@.d)),
              !.premium = Over(Whole(@.n), Whole(@.d))]

\* 100 * parseFloat(pnl.toFixed(2)) for a double of either sign.
SignedCents(pnl) == pnl.sign * Cents(pnl.size)

\* Math.max(1, Math.floor(daysToExpiry / (dateCount - 1)))
DayStepOf(daysToExpiry, dateCount) == Max(1, daysToExpiry \div (dateCount - 1))

\* for (let d = dayStep; d < daysToExpiry; d += dayStep) dateIntervals.push(d)
RECURSIVE IntervalLoop(_, _, _)
IntervalLoop(d, daysToExpiry, dayStep) ==
  IF d < daysToExpiry
  THEN <<d>> \o IntervalLoop(d + dayStep, daysToExpiry, dayStep)
  ELSE <<>>

\* dateIntervals: [0], the days of the loop, and daysToExpiry pushed last
\* whatever the list holds.
MultiDateIntervals(daysToExpiry, dateCount) ==
  <<0>> \o IntervalLoop(DayStepOf(daysToExpiry, dateCount), daysToExpiry,
                        DayStepOf(daysToExpiry, dateCount))
        \o <<daysToExpiry>>

\* row[`day${day}`], in cents: atExpiration = day >= daysToExpiry.
MultiDateCell(call, price, day) ==
  IF day >= call.daysToExpiry
  THEN SignedCents(calculateStrategyPnLDouble(call.doubles, price))
  ELSE PricerCents(calculateStrategyPnLBefore(call.numbers, Milli(10 * Cents(price)),
                                              call.now, day, Milli(50)))

\* One row: a property day<d> for every day of dateIntervals, written once
\* for each time the day is in the list.
MultiDateRow(call, price) ==
  [stockPrice |-> Cents(price),
   day |-> [d \in {call.dateIntervals[i] : i \in 1..Len(call.dateIntervals)} |->
              MultiDateCell(call, price, d)]]

\* One pass of the price loop.
MultiDateBody(call, acc) ==
  IF Below(call.maxPrice, acc.price) THEN acc
  ELSE [price |-> Sum(acc.price, call.step),
        data |-> Append(acc.data, MultiDateRow(call, acc.price))]

\* for (let price = minPrice; price <= maxPrice; price += step): the passes
\* numbered lo..hi, in order, split in halves as those of PayoffLoop.
RECURSIVE MultiDateLoop(_, _, _, _)
MultiDateLoop(call, lo, hi, acc) ==
  IF lo = hi THEN MultiDateBody(call, acc)
  ELSE LET firstHalf == MultiDateLoop(call, lo, (lo + hi) \div 2, acc)
       IN IF Below(call.maxPrice, firstHalf.price) THEN firstHalf
          ELSE MultiDateLoop(call, (lo + hi) \div 2 + 1, hi, firstHalf)

\* The constants of one call, the step among them.
MultiDateCall(legs, minPrice, maxPrice, daysToExpiry, dateCount, now) ==
  [doubles |-> [i \in 1..Len(legs) |-> AsDoubles(legs[i])],
   numbers |-> [i \in 1..Len(legs) |-> AsPricerNumbers(legs[i])],
   minPrice |-> minPrice, maxPrice |-> maxPrice,
   step |-> Quotient(Difference(maxPrice, minPrice), MultiDateSteps),
   daysToExpiry |-> daysToExpiry, now |-> now,
   dateIntervals |-> MultiDateIntervals(daysToExpiry, dateCount)]

\* The rows and the list of days of one call.
MultiDateOf(call) ==
  [data |-> MultiDateLoop(call, 0, MultiDateSteps + 1,
                          [price |-> call.minPrice, data |-> <<>>]).data,
   dateIntervals |-> call.dateIntervals]

\* generateMultiDatePayoffData(legs, currentPrice, daysToExpiry, range,
\* dateCount), called at the time now, for a whole currentPrice above 0 and
\* 0 < range <= 1.
generateMultiDatePayoffData(legs, currentPrice, daysToExpiry, range, dateCount, now) ==
  MultiDateOf(MultiDateCall(legs,
                            Product(Difference(DoubleOne, range), currentPrice),
                            Product(Sum(DoubleOne, range), currentPrice),
                            daysToExpiry, dateCount, now))

\* The dates the model can read, as hours from the midnight of
\* 2026-11-04.
Calendar ==
  ("2026-10-05" :> -30 * oneDay) @@ ("2026-11-04" :> 0)
  @@ ("2026-11-05" :> oneDay) @@ ("2026-12-04" :> 30 * oneDay)

\* A parser that throws on what it cannot read.
DateOf_Rejects(expiration) ==
  IF expiration \in DOMAIN Calendar THEN JsNum(Whole(Calendar[expiration]))
  ELSE Thrown

\* new Date(expiration), as its time value: NaN for an Invalid Date.
DateOf(expiration) ==
  IF expiration \in DOMAIN Calendar THEN JsNum(Whole(Calendar[expiration]))
  ELSE NaN

\* daysBetween(date1, date2) on time values that may be NaN.
daysBetweenJs(date1, date2) ==
  IF BothFinite(date1, date2)
  THEN JsNum(Whole(daysBetween(date1.v[1], date2.v[1])))
  ELSE Passed(date1, date2)

\* optionValue of calculateStrategyPnL, for a leg whose expiration is a
\* string; now is the time value of new Date().
OptionValueJs(leg, stockPrice, atExpiration, now, daysFromNow, r, T) ==
  IF atExpiration \/ JsLessEq(T, JsNum(Whole(0)))
  THEN IntrinsicPriceJs(stockPrice, JsNum(leg.strike), leg.optionType)
  ELSE calculateOptionPriceJs(stockPrice, JsNum(leg.strike), T, r,
                              JsNum(IvDefault(leg)), leg.optionType)

\* One iteration of the loop of calculateStrategyPnL, in either mode.
LegPnLJs(leg, stockPrice, atExpiration, now, daysFromNow, r) ==
  JsTimes(
    JsTimes(
      JsTimes(JsNum(Whole(IF leg.action = "buy" THEN 1 ELSE -1)),
              JsMinus(OptionValueJs(leg, stockPrice, atExpiration, now, daysFromNow, r,
                        JsMax(JsNum(Whole(0)),
                              JsOver(JsMinus(daysBetweenJs(now, DateOf(leg.expiration)),
                                             JsNum(Whole(daysFromNow))),
                                     JsNum(Whole(365))))),
                      JsNum(leg.premium))),
      JsNum(Whole(100))),
    JsNum(Whole(QtyDefault(leg))))

RECURSIVE PnLLoopJs(_, _, _, _, _, _, _, _)
PnLLoopJs(legs, i, stockPrice, atExpiration, now, daysFromNow, r, totalPnL) ==
  IF i > Len(legs) THEN totalPnL
  ELSE PnLLoopJs(legs, i + 1, stockPrice, atExpiration, now, daysFromNow, r,
         JsPlus(totalPnL,
                LegPnLJs(legs[i], stockPrice, atExpiration, now, daysFromNow, r)))

\* calculateStrategyPnL(legs, stockPrice, atExpiration, daysFromNow, r),
\* called at the time now.
calculateStrategyPnLJs(legs, stockPrice, atExpiration, now, daysFromNow, r) ==
  PnLLoopJs(legs, 1, stockPrice, atExpiration, now, daysFromNow, r, JsNum(Whole(0)))

\* greeks.x * multiplier * qty
ScaledJs(greek, leg) ==
  JsTimes(JsTimes(greek, JsNum(Whole(IF leg.action = "buy" THEN 1 ELSE -1))),
          JsNum(Whole(QtyDefault(leg))))

\* combined.x += greeks.x * multiplier * qty, for the five Greeks.
CombinedJs(combined, greeks, leg) ==
  [delta |-> JsPlus(combined.delta, ScaledJs(greeks.delta, leg)),
   gamma |-> JsPlus(combined.gamma, ScaledJs(greeks.gamma, leg)),
   theta |-> JsPlus(combined.theta, ScaledJs(greeks.theta, leg)),
   vega |-> JsPlus(combined.vega, ScaledJs(greeks.vega, leg)),
   rho |-> JsPlus(combined.rho, ScaledJs(greeks.rho, leg))]

\* The loop of calculateStrategyGreeks, T = Math.max(0.001, daysToExpiry / 365).
RECURSIVE GreeksLoopJs(_, _, _, _, _, _)
GreeksLoopJs(legs, i, stockPrice, now, r, combined) ==
  IF i > Len(legs) THEN combined
  ELSE GreeksLoopJs(legs, i + 1, stockPrice, now, r,
         CombinedJs(combined,
                    calculateGreeksJs(stockPrice, JsNum(legs[i].strike),
                      JsMax(JsNum(Milli(1)),
                            JsOver(daysBetweenJs(now, DateOf(legs[i].expiration)),
                                   JsNum(Whole(365)))),
                      r, JsNum(IvDefault(legs[i])), legs[i].optionType),
                    legs[i]))

\* calculateStrategyGreeks(legs, stockPrice, r), called at the time now.
calculateStrategyGreeksJs(legs, stockPrice, now, r) ==
  GreeksLoopJs(legs, 1, stockPrice, now, r,
               [delta |-> JsNum(Whole(0)), gamma |-> JsNum(Whole(0)),
                theta |-> JsNum(Whole(0)), vega |-> JsNum(Whole(0)),
                rho |-> JsNum(Whole(0))])

\* A net premium that counts every leg once, whatever its quantity.
RECURSIVE NetPremiumReduce_NoQty(_, _, _)
NetPremiumReduce_NoQty(legs, i, sum) ==
  IF i > Len(legs) THEN sum
  ELSE LET leg == legs[i]
           mult == IF leg.action = "buy" THEN -1 ELSE 1
       IN NetPremiumReduce_NoQty(legs, i + 1, sum + mult * leg.premium * 100)

\* legs.reduce(...) of calculateStrategyMetrics
RECURSIVE NetPremiumReduce(_, _, _)
NetPremiumReduce(legs, i, sum) ==
  IF i > Len(legs) THEN sum
  ELSE LET leg == legs[i]
           mult == IF leg.action = "buy" THEN -1 ELSE 1
       IN NetPremiumReduce(legs, i + 1, sum + mult * leg.premium * 100 * QtyOrOne(leg))

\* const step = 0.5
ScanStep == 500

\* A rounding that cuts a price to the cent below.
ToFixed2_CutsDown(x) == (x \div 10) * 10

\* parseFloat(x.toFixed(2)) for x >= 0: the nearest cent, a tie going up.
ToFixed2(x) == ((x + 5) \div 10) * 10

\* A scan that moves an extreme to every price that equals it.
ScanBody_LastExtreme(legs, price, acc) ==
  LET pnl == calculateStrategyPnL(legs, price)
      up == ~ExtLess(Fin(pnl), acc.maxProfit)
      down == ~ExtLess(acc.maxLoss, Fin(pnl))
      crossing == /\ acc.hasPrev
                  /\ \/ (acc.prevPnL < 0 /\ pnl >= 0)
                     \/ (acc.prevPnL >= 0 /\ pnl < 0)
  IN [maxProfit |-> IF up THEN Fin(pnl) ELSE acc.maxProfit,
      maxProfitPrice |-> IF up THEN price ELSE acc.maxProfitPrice,
      maxLoss |-> IF down THEN Fin(pnl) ELSE acc.maxLoss,
      maxLossPrice |-> IF down THEN price ELSE acc.maxLossPrice,
      breakevens |-> IF crossing THEN Append(acc.breakevens, ToFixed2(price))
                     ELSE acc.breakevens,
      hasPrev |-> TRUE,
      prevPnL |-> pnl]

\* The body of the scan loop: one price.
ScanBody(legs, price, acc) ==
  LET pnl == calculateStrategyPnL(legs, price)
      up == ExtLess(acc.maxProfit, Fin(pnl))
      down == ExtLess(Fin(pnl), acc.maxLoss)
      crossing == /\ acc.hasPrev
                  /\ \/ (acc.prevPnL < 0 /\ pnl >= 0)
                     \/ (acc.prevPnL >= 0 /\ pnl < 0)
  IN [maxProfit |-> IF up THEN Fin(pnl) ELSE acc.maxProfit,
      maxProfitPrice |-> IF up THEN price ELSE acc.maxProfitPrice,
      maxLoss |-> IF down THEN Fin(pnl) ELSE acc.maxLoss,
      maxLossPrice |-> IF down THEN price ELSE acc.maxLossPrice,
      breakevens |-> IF crossing THEN Append(acc.breakevens, ToFixed2(price))
                     ELSE acc.breakevens,
      hasPrev |-> TRUE,
      prevPnL |-> pnl]

\* for (let price = minPrice; price <= maxPrice; price += step): the
\* iterations numbered lo..hi, in order, the first at price minPrice.  The
\* range is split in halves, and the first half is demanded (a scan that
\* has run has a previous P&L) before the second starts, only to keep the
\* evaluation shallow.
RECURSIVE ScanLoop(_, _, _, _, _)
ScanLoop(legs, minPrice, lo, hi, acc) ==
  IF lo > hi THEN acc
  ELSE IF lo = hi THEN ScanBody(legs, minPrice + lo * ScanStep, acc)
  ELSE LET mid == (lo + hi) \div 2
           firstHalf == ScanLoop(legs, minPrice, lo, mid, acc)
       IN IF firstHalf.hasPrev THEN ScanLoop(legs, minPrice, mid + 1, hi, firstHalf)
          ELSE firstHalf

\* The number of prices the loop visits.
ScanCount(minPrice, maxPrice) ==
  IF minPrice > maxPrice THEN 0 ELSE (maxPrice - minPrice) \div ScanStep + 1

\* Math.max(0.01, ...)
MinScanPrice == 10

\* const range = 0.5 by default
DefaultRange == 50

\* A number of the pricer that is a whole number of thousandths, as the
\* strategy engine at expiration holds it.
Thousandths(a) == a[1] * 1000 + a[2] \div (2 * 10^6)

\* The legs with strike and premium in thousandths of a dollar.
InThousandths(legs) ==
  [i \in 1..Len(legs) |->
     [legs[i] EXCEPT !.strike = Thousandths(@), !.premium = Thousandths(@)]]

\* calculateStrategyMetrics(legs, currentPrice, range), range in percent.
calculateStrategyMetrics(legs, currentPrice, range) ==
  LET minPrice == Max(MinScanPrice, (currentPrice * (100 - range)) \div 100)
      maxPrice == (currentPrice * (100 + range)) \div 100
      start == [maxProfit |-> NegInfinity, maxProfitPrice |-> currentPrice,
                maxLoss |-> PosInfinity, maxLossPrice |-> currentPrice,
                breakevens |-> <<>>, hasPrev |-> FALSE, prevPnL |-> 0]
      scan == ScanLoop(legs, minPrice, 0, ScanCount(minPrice, maxPrice) - 1, start)
      farOTMCall == calculateStrategyPnL(legs, currentPrice * 3)
      farOTMPut == calculateStrategyPnL(legs, currentPrice \div 10)
      \* farOTMCall > maxProfit * 1.5, both sides doubled
      hasUnlimitedUpside == ExtLess(ExtTimes(scan.maxProfit, 3), Fin(2 * farOTMCall))
      hasUnlimitedDownside == ExtLess(Fin(2 * farOTMPut), ExtTimes(scan.maxLoss, 3))
      netPremium == NetPremiumReduce(legs, 1, 0)
  IN [maxProfit |-> IF hasUnlimitedUpside THEN PosInfinity ELSE scan.maxProfit,
      maxLoss |-> IF hasUnlimitedDownside THEN NegInfinity ELSE scan.maxLoss,
      maxProfitPrice |-> scan.maxProfitPrice,
      maxLossPrice |-> scan.maxLossPrice,
      breakevens |-> scan.breakevens,
      netPremium |-> netPremium,
      isDebit |-> netPremium < 0,
      isCredit |-> netPremium > 0]

\* ------------------------------------------------------------------------
\* Strategy templates
\* ------------------------------------------------------------------------

\* A leg shape: { optionType, action, strikeOffset }
Shape(optionType, action, strikeOffset) ==
  [optionType |-> optionType, action |-> action, strikeOffset |-> strikeOffset]

\* A template: its name, type and legs fields and the list that its
\* buildLegs returns.
Template(name, type, legs, shapes) ==
  [name |-> name, type |-> type, legs |-> legs, buildLegs |-> shapes]

\* The templates whose legs have one expiration.
OneExpiryTemplates ==
  "longCall" :> Template("Long Call", "bullish", 1,
                         <<Shape("call", "buy", 0)>>)
  @@ "longPut" :> Template("Long Put", "bearish", 1,
                           <<Shape("put", "buy", 0)>>)
  @@ "coveredCall" :> Template("Covered Call", "neutral", 1,
                               <<Shape("call", "sell", 5)>>)
  @@ "bullCallSpread" :> Template("Bull Call Spread", "bullish", 2,
       <<Shape("call", "buy", 0), Shape("call", "sell", 5)>>)
  @@ "bearPutSpread" :> Template("Bear Put Spread", "bearish", 2,
       <<Shape("put", "buy", 0), Shape("put", "sell", -5)>>)
  @@ "bullPutSpread" :> Template("Bull Put Spread", "bullish", 2,
       <<Shape("put", "sell", 0), Shape("put", "buy", -5)>>)
  @@ "bearCallSpread" :> Template("Bear Call Spread", "bearish", 2,
       <<Shape("call", "sell", 0), Shape("call", "buy", 5)>>)
  @@ "straddle" :> Template("Long Straddle", "neutral", 2,
       <<Shape("call", "buy", 0), Shape("put", "buy", 0)>>)
  @@ "strangle" :> Template("Long Strangle", "neutral", 2,
       <<Shape("call", "buy", 5), Shape("put", "buy", -5)>>)
  @@ "ironCondor" :> Template("Iron Condor", "neutral", 4,
       <<Shape("put", "buy", -10), Shape("put", "sell", -5),
         Shape("call", "sell", 5), Shape("call", "buy", 10)>>)
  @@ "ironButterfly" :> Template("Iron Butterfly", "neutral", 4,
       <<Shape("put", "buy", -5), Shape("put", "sell", 0),
         Shape("call", "sell", 0), Shape("call", "buy", 5)>>)
  @@ "callButterfly" :> Template("Call Butterfly", "neutral", 3,
       <<Shape("call", "buy", -5),
         [qty |-> 2] @@ Shape("call", "sell", 0),
         Shape("call", "buy", 5)>>)
  @@ "putButterfly" :> Template("Put Butterfly", "neutral", 3,
       <<Shape("put", "buy", 5),
         [qty |-> 2] @@ Shape("put", "sell", 0),
         Shape("put", "buy", -5)>>)

\* The templates with requiresMultipleExpiries.
MultipleExpiryTemplates ==
  "calendarSpread" :> Template("Calendar Spread", "neutral", 2,
       <<[isNearTerm |-> TRUE] @@ Shape("call", "sell", 0),
         [isFarTerm |-> TRUE] @@ Shape("call", "buy", 0)>>)
  @@ "diagonalSpread" :> Template("Diagonal Spread", "bullish", 2,
       <<[isNearTerm |-> TRUE] @@ Shape("call", "sell", 5),
         [isFarTerm |-> TRUE] @@ Shape("call", "buy", 0)>>)

\* A table without the templates of two expirations.
STRATEGY_TEMPLATES_OneExpiry == OneExpiryTemplates

STRATEGY_TEMPLATES == OneExpiryTemplates @@ MultipleExpiryTemplates

\* A builder that moves every shape by the base strike.
buildLegs_FromBaseStrike(template, baseStrike, expiry, baseIV) ==
  [i \in 1..Len(STRATEGY_TEMPLATES[template].buildLegs) |->
     [STRATEGY_TEMPLATES[template].buildLegs[i]
        EXCEPT !.strikeOffset = @ + baseStrike]]

\* STRATEGY_TEMPLATES[template].buildLegs(baseStrike, expiry, baseIV): no
\* builder reads its parameters.
buildLegs(template, baseStrike, expiry, baseIV) ==
  STRATEGY_TEMPLATES[template].buildLegs

\* ------------------------------------------------------------------------
\* The strategy builder of the application (App.jsx)
\* ------------------------------------------------------------------------

\* unixToDate(timestamp): the day of the timestamp, as the date string that
\* new Date(expiration) reads back as the midnight of that day.
unixToDate(timestamp) == (timestamp \div oneDay) * oneDay

\* getMidPrice(option), in thousandths of a dollar.
getMidPrice(option) ==
  IF option.bid # 0 /\ option.ask # 0 THEN (option.bid + option.ask) \div 2
  ELSE option.lastPrice

\* chain.reduce(...) of findOptionByStrike: the option closest to the
\* strike, the earlier one of two that are as close.
RECURSIVE ClosestFrom(_, _, _, _)
ClosestFrom(chain, i, prev, strike) ==
  LET distance(o) == IF o.strike < strike THEN strike - o.strike
                     ELSE o.strike - strike
  IN IF i > Len(chain) THEN prev
     ELSE ClosestFrom(chain, i + 1,
                      IF distance(chain[i]) < distance(prev) THEN chain[i] ELSE prev,
                      strike)

\* findOptionByStrike(strike, optionType, options): a list of the option
\* found, empty where the code has undefined (an empty chain).
findOptionByStrike(strike, optionType, options) ==
  LET chain == IF optionType = "call" THEN options.calls ELSE options.puts
  IN IF Len(chain) = 0 THEN <<>>
     ELSE <<ClosestFrom(chain, 1, chain[1], strike)>>

\* legs.push({...}): the leg of a template shape and the option found for
\* it.  Strikes of the chain are in dollars, the engine's in thousandths.
BoundLeg(tLeg, option) ==
  [optionType |-> tLeg.optionType,
   action |-> tLeg.action,
   strike |-> Dollars(option.strike),
   premium |-> getMidPrice(option),
   qty |-> QtyOrOne(tLeg),
   expiration |-> unixToDate(option.expiration),
   iv |-> IF IsZero(option.impliedVolatility) THEN Milli(300)
          ELSE option.impliedVolatility]

\* for (const tLeg of templateLegs): the legs bound so far, or the error
\* thrown at the first shape for which no option is found.
RECURSIVE BindLoop(_, _, _, _, _, _)
BindLoop(templateLegs, i, baseStrike, strikeWidth, options, legs) ==
  IF i > Len(templateLegs) THEN [error |-> "", legs |-> legs]
  ELSE LET tLeg == templateLegs[i]
           targetStrike == baseStrike + (tLeg.strikeOffset * strikeWidth) \div 5
           option == findOptionByStrike(targetStrike, tLeg.optionType, options)
       IN IF option = <<>> THEN [error |-> "Could not find", legs |-> <<>>]
          ELSE BindLoop(templateLegs, i + 1, baseStrike, strikeWidth, options,
                        Append(legs, BoundLeg(tLeg, option[1])))

\* handleBuildStrategy with a strategy selected and the chain that
\* fetchOptionsChain(ticker, selectedExpiry) answered: the state it sets
\* (builtLegs, metrics and step, or error).
handleBuildStrategy(selectedStrategy, baseStrike, strikeWidth, data) ==
  LET bound == BindLoop(buildLegs(selectedStrategy, baseStrike, "undefined", "undefined"),
                        1, baseStrike, strikeWidth, data.options, <<>>)
  IN IF bound.error # ""
     THEN [error |-> bound.error, builtLegs |-> <<>>, step |-> 1]
     ELSE [error |-> "", builtLegs |-> bound.legs, step |-> 2,
           metrics |-> calculateStrategyMetrics(bound.legs,
                                                Dollars(data.underlyingPrice),
                                                DefaultRange)]

\* ------------------------------------------------------------------------
\* The caller: inputs
\* ------------------------------------------------------------------------

OptionTypes == {"call", "put"}
LegActions == {"buy", "sell"}

\* The longest generic strategy the caller builds.
MaxLegs == 2

Leg(optionType, action, strike, premium, qty) ==
  [optionType |-> optionType, action |-> action, strike |-> strike,
   premium |-> premium, qty |-> qty]

\* Legs around a $20 underlying.
LegUniverse ==
  LET shapes == {[optionType |-> t, action |-> a, strike |-> k, premium |-> prem] :
                   t \in OptionTypes, a \in LegActions,
                   k \in {Dollars(18), Dollars(22)},
                   prem \in {Quarters(1), Quarters(6)}}
  IN shapes \cup {Leg(s.optionType, s.action, s.strike, s.premium, 2) : s \in shapes}

RECURSIVE SeqsUpTo(_, _)
SeqsUpTo(S, n) ==
  IF n = 0 THEN {<<>>}
  ELSE LET shorter == SeqsUpTo(S, n - 1)
       IN shorter \cup {Append(s, x) : s \in {t \in shorter : Len(t) = n - 1}, x \in S}

GenericStrategies == SeqsUpTo(LegUniverse, MaxLegs)

\* A leg of quantity 0, alone and before a leg of quantity 2.
ZeroQuantityStrategies ==
  {<<Leg(t, a, Dollars(18), Quarters(6), 0)>> : t \in OptionTypes, a \in LegActions}
  \cup {<<Leg(t, a, Dollars(22), Quarters(1), 0),
          Leg("call", "sell", Dollars(22), Quarters(6), 2)>> :
        t \in OptionTypes, a \in LegActions}

GenericPrices == {Dollars(10), Dollars(18), Dollars(20), Quarters(87), Dollars(30)}

\* The long straddle of the specification: K = 100, both premiums 5.
LongStraddle ==
  <<Leg("call", "buy", Dollars(100), Dollars(5), 1),
    Leg("put", "buy", Dollars(100), Dollars(5), 1)>>

IronCondor(p1, p2, p3, p4) ==
  <<Leg("put", "buy", Dollars(85), p1, 1),
    Leg("put", "sell", Dollars(90), p2, 1),
    Leg("call", "sell", Dollars(110), p3, 1),
    Leg("call", "buy", Dollars(115), p4, 1)>>

CondorPremiums == {Quarters(2 * h) : h \in 0..6}

IronCondors ==
  {IronCondor(p1, p2, p3, p4) : p1 \in CondorPremiums, p2 \in CondorPremiums,
                                p3 \in CondorPremiums, p4 \in CondorPremiums}

\* The iron condors whose net credit is $2.00 a share.
CreditCondors ==
  {c \in IronCondors :
     c[2].premium + c[3].premium - c[1].premium - c[4].premium = Dollars(2)}

\* The strategies of at most one leg.
SingleLegs == SeqsUpTo(LegUniverse, 1)

\* Scans whose prices are not binary fractions: one that starts at the
\* clamp of 0.01 (range = 1), one around a price of $20.04 (range = 0.3).
\* The code's sums on them are the exact ones to within rounding, and the
\* comparisons it makes come out the same, for strategies of one leg.  At
\* a current price of 0 the scan visits no price at all.
OffGridScans ==
  {[currentPrice |-> Dollars(20), range |-> 100],
   [currentPrice |-> Dollars(20) + 40, range |-> 30],
   [currentPrice |-> 0, range |-> DefaultRange]}

MetricsInputs ==
  {[legs |-> l, currentPrice |-> Dollars(20), range |-> r] :
     l \in GenericStrategies, r \in {DefaultRange}}
  \cup {[legs |-> l, currentPrice |-> Dollars(100), range |-> DefaultRange] :
     l \in {LongStraddle} \cup CreditCondors}
  \cup {[legs |-> l, currentPrice |-> g.currentPrice, range |-> g.range] :
     l \in SingleLegs, g \in OffGridScans}

\* Expiration dates, midnight UTC: 30 days ago, today, tomorrow, in 30 and
\* in 60 days.
ExpirationDates == {d * oneDay : d \in {-30, 0, 1, 30, 60}}

\* new Date(): midnight, 06:00, noon and 18:00 of today.
Clock == {0, 6, 12, 18}

\* Legs with an expiration date (strike $100, premium $2.50), the implied
\* volatility left out or 50 %.
DatedLegs ==
  {[optionType |-> t, action |-> a, strike |-> Whole(100),
    premium |-> Milli(2500), expiration |-> e] :
     t \in OptionTypes, a \in LegActions, e \in ExpirationDates}
  \cup {[optionType |-> t, action |-> a, strike |-> Whole(100),
         premium |-> Milli(2500), expiration |-> e, iv |-> Milli(500)] :
       t \in OptionTypes, a \in LegActions, e \in ExpirationDates}

\* Calendar spreads: a call sold for one date and a call bought for a later
\* one, two contracts of each.
DatedCalendars ==
  {<<[optionType |-> "call", action |-> "sell", strike |-> Whole(100),
      premium |-> Milli(2500), expiration |-> near, qty |-> 2],
     [optionType |-> "call", action |-> "buy", strike |-> Whole(100),
      premium |-> Milli(4000), expiration |-> far, qty |-> 2]>> :
     near \in ExpirationDates \ {60 * oneDay}, far \in {60 * oneDay}}

DatedStrategies == {<<l>> : l \in DatedLegs} \cup DatedCalendars

\* A bought leg and the same leg sold, one contract of each or three; the
\* legs expire today or in 30 days.
OffsettingLegs ==
  {l \in DatedLegs :
     l.action = "buy" /\ ~Has(l, "iv") /\ l.expiration \in {0, 30 * oneDay}}

OffsettingPairs ==
  {<<l, [l EXCEPT !.action = "sell"]>> : l \in OffsettingLegs}
  \cup {<<[qty |-> 3] @@ l, [qty |-> 3] @@ [l EXCEPT !.action = "sell"]>> :
         l \in OffsettingLegs}

\* Ranges of a chart as fractions: the default 0.3, 0.25, 0.5 and 1.
ChartRanges ==
  {[n |-> 3, d |-> 10], [n |-> 1, d |-> 4], [n |-> 1, d |-> 2], [n |-> 1, d |-> 1]}

\* Current prices of a chart, in whole dollars.
ChartPrices == {1, 20, 50, 100, 150}

\* Charts of an option struck a quarter above the current price, bought for
\* $0.25 or $2.50.
PayoffInputs ==
  {[K |-> 4 * c + 1, premium |-> q, optionType |-> t, currentPrice |-> c,
    range |-> g] :
     c \in ChartPrices, q \in {1, 10}, t \in OptionTypes, g \in ChartRanges}

\* Heatmaps of an option struck at the current price for $2.50: of a call at
\* $100 for several numbers of days, and of calls and puts at several
\* prices on the last two days.
HeatmapInputs ==
  {[K |-> Whole(100), premium |-> Milli(2500), optionType |-> "call",
    currentPrice |-> 100, daysToExpiry |-> D, sigma |-> Milli(300),
    r |-> Milli(50)] : D \in {9, 15, 17}}
  \cup {[K |-> Whole(c), premium |-> Milli(2500), optionType |-> t,
         currentPrice |-> c, daysToExpiry |-> D, sigma |-> Milli(300),
         r |-> Milli(50)] :
       c \in {2, 4, 20, 100, 150}, t \in OptionTypes, D \in {0, 1}}

\* The option of a chain at a strike: bid and ask a quarter either side of
\* $3.00, implied volatility 25 % or not quoted.
Quoted(strike, expiration) ==
  [strike |-> strike, bid |-> Quarters(11), ask |-> Quarters(13),
   lastPrice |-> Quarters(12), expiration |-> expiration,
   impliedVolatility |-> IF strike = 100 THEN Whole(0) ELSE Milli(250)]

\* The answer of the server for one expiration date, a timestamp in hours:
\* the calls and the puts of that date, strikes $85 to $115, under a stock
\* at $100.  The puts may be missing.
ChainOf(expiration, withPuts) ==
  LET chain == [i \in 1..7 |-> Quoted(80 + 5 * i, expiration)]
  IN [underlyingPrice |-> 100,
      options |-> [calls |-> chain, puts |-> IF withPuts THEN chain ELSE <<>>]]

\* The expirations a user can select: in 30 and in 60 days, at 20:00 UTC.
SelectableExpiries == {30 * oneDay + 20, 60 * oneDay + 20}

BuildInputs ==
  {[selectedStrategy |-> k, baseStrike |-> 100, strikeWidth |-> w,
    selectedExpiry |-> e, withPuts |-> b] :
     k \in DOMAIN STRATEGY_TEMPLATES, w \in {1, 5, 10},
     e \in SelectableExpiries, b \in BOOLEAN}

\* Legs that are well formed but for the strike (zero or negative) or the
\* expiration (a string that is no date, an empty one): premium $2.50, the
\* date in 30 days, today or 30 days ago where it is one.
OddLegs ==
  {[optionType |-> t, action |-> a, strike |-> Whole(k), premium |-> Milli(2500),
    expiration |-> e] :
     t \in OptionTypes, a \in LegActions, k \in {100, 0, -100},
     e \in {"2026-12-04", "2026-11-04", "2026-10-05", "not a date", ""}}

\* One such leg, or a sound one bought twice and then one such call sold.
OddStrategies ==
  {<<l>> : l \in OddLegs}
  \cup {<<[optionType |-> "put", action |-> "buy", strike |-> Whole(100),
           premium |-> Milli(2500), expiration |-> "2026-12-04", qty |-> 2], l>> :
         l \in {o \in OddLegs : o.optionType = "call" /\ o.action = "sell"}}

\* Strikes and premiums as the number literals n / d: 100, 20 and 50.5,
\* and 0.1, 0.3, 0.01, 0.25, 2.5 and 5.
LiteralStrikes == {[n |-> 100, d |-> 1], [n |-> 20, d |-> 1], [n |-> 101, d |-> 2]}

LiteralPremiums ==
  {[n |-> 1, d |-> 10], [n |-> 3, d |-> 10], [n |-> 1, d |-> 100],
   [n |-> 1, d |-> 4], [n |-> 5, d |-> 2], [n |-> 5, d |-> 1]}

\* A leg of those, its quantity left out, 1 or 3.
LiteralLegs ==
  {[optionType |-> t, action |-> a, strike |-> K, premium |-> premium] :
     t \in OptionTypes, a \in LegActions, K \in LiteralStrikes,
     premium \in LiteralPremiums}
  \cup {[optionType |-> t, action |-> a, strike |-> K, premium |-> premium,
          qty |-> qty] :
        t \in OptionTypes, a \in LegActions, K \in LiteralStrikes,
        premium \in LiteralPremiums, qty \in {1, 3}}

\* A call struck at 20 and bought for 1.5, or a put struck at 18 and sold
\* twice for 0.3, expiring daysToExpiry days after the call is made, with
\* the number of dates of the chart.
MultiDateInputs ==
  {[legs |-> <<leg @@ [expiration |-> t.daysToExpiry * oneDay]>>,
    currentPrice |-> 20, daysToExpiry |-> t.daysToExpiry,
    range |-> [n |-> 3, d |-> 10], dateCount |-> t.dateCount, now |-> 0] :
     leg \in {[optionType |-> "call", action |-> "buy",
               strike |-> [n |-> 20, d |-> 1], premium |-> [n |-> 3, d |-> 2]]},
     t \in {[daysToExpiry |-> 0, dateCount |-> 2], [daysToExpiry |-> 0, dateCount |-> 5],
            [daysToExpiry |-> 1, dateCount |-> 2], [daysToExpiry |-> 3, dateCount |-> 5],
            [daysToExpiry |-> 5, dateCount |-> 3]}}
  \cup {[legs |-> <<[optionType |-> "put", action |-> "sell",
                     strike |-> [n |-> 18, d |-> 1], premium |-> [n |-> 3, d |-> 10],
                     qty |-> 2, expiration |-> 4 * oneDay]>>,
          currentPrice |-> 20, daysToExpiry |-> 4, range |-> [n |-> 3, d |-> 10],
          dateCount |-> 2, now |-> 0]}

\* Underlying price and strike, in dollars.
Underlyings ==
  {[S |-> Whole(90), K |-> Whole(100)], [S |-> Whole(100), K |-> Whole(100)],
   [S |-> Whole(110), K |-> Whole(100)], [S |-> Whole(2000), K |-> Whole(2000)]}

\* Years to expiration: past, at expiration, a quarter, a year.
Expiries == {Neg(Milli(250)), Whole(0), Milli(250), Whole(1)}

Rates == {Neg(Milli(125)), Whole(0), Milli(50), Milli(125)}

Volatilities == {Neg(Milli(200)), Whole(0), Milli(200), Milli(500)}

PricerInputs ==
  {[S |-> u.S, K |-> u.K, T |-> T, r |-> r, sigma |-> sigma, optionType |-> t] :
     u \in Underlyings, T \in Expiries, r \in Rates, sigma \in Volatilities,
     t \in OptionTypes}

\* Arguments of normalCDF: -3, -2.75, ..., 3.
Deviates == {Milli(250 * k) : k \in -12..12}

\* ------------------------------------------------------------------------
\* The caller: one call at a time
\* ------------------------------------------------------------------------

Init ==
  /\ op = "idle"
  /\ args = <<>>
  /\ ret = <<>>

CallCalculateBreakEven ==
  /\ op = "idle"
  /\ \E K \in {Dollars(20), Dollars(100)}, premium \in {0, Quarters(5), Dollars(5)},
        optionType \in OptionTypes \cup {"stock"} :
       /\ op' = "calculateBreakEven"
       /\ args' = [K |-> K, premium |-> premium, optionType |-> optionType]
       /\ ret' = calculateBreakEven(K, premium, optionType)

CallCalculateStrategyPnL ==
  /\ op = "idle"
  /\ \E legs \in GenericStrategies \cup ZeroQuantityStrategies,
        stockPrice \in GenericPrices :
       /\ op' = "calculateStrategyPnL"
       /\ args' = [legs |-> legs, stockPrice |-> stockPrice]
       /\ ret' = calculateStrategyPnL(legs, stockPrice)

CallCalculateStrategyMetrics ==
  /\ op = "idle"
  /\ \E in \in MetricsInputs :
       /\ op' = "calculateStrategyMetrics"
       /\ args' = in
       /\ ret' = calculateStrategyMetrics(in.legs, in.currentPrice, in.range)

CallCalculateOptionPrice ==
  /\ op = "idle"
  /\ \E in \in PricerInputs :
       /\ op' = "calculateOptionPrice"
       /\ args' = in
       /\ ret' = calculateOptionPrice(in.S, in.K, in.T, in.r, in.sigma, in.optionType)

CallCalculateGreeks ==
  /\ op = "idle"
  /\ \E in \in PricerInputs :
       /\ op' = "calculateGreeks"
       /\ args' = in
       /\ ret' = calculateGreeks(in.S, in.K, in.T, in.r, in.sigma, in.optionType)

CallCalculateStrategyPnLBefore ==
  /\ op = "idle"
  /\ \E legs \in DatedStrategies, stockPrice \in {Whole(95), Whole(105)},
        now \in Clock, daysFromNow \in {0, 30, 45} :
       /\ op' = "calculateStrategyPnLBefore"
       /\ args' = [legs |-> legs, stockPrice |-> stockPrice, now |-> now,
                   daysFromNow |-> daysFromNow, r |-> Milli(50)]
       /\ ret' = calculateStrategyPnLBefore(legs, stockPrice, now, daysFromNow,
                                            Milli(50))

CallCalculateStrategyGreeks ==
  /\ op = "idle"
  /\ \E legs \in DatedStrategies \cup OffsettingPairs,
        stockPrice \in {Whole(100)}, now \in {0, 12} :
       /\ op' = "calculateStrategyGreeks"
       /\ args' = [legs |-> legs, stockPrice |-> stockPrice, now |-> now,
                   r |-> Milli(50)]
       /\ ret' = calculateStrategyGreeks(legs, stockPrice, now, Milli(50))

\* K and the premium are given in quarters of a dollar, the range as a
\* fraction.
CallGeneratePayoffData ==
  /\ op = "idle"
  /\ \E in \in PayoffInputs :
       /\ op' = "generatePayoffData"
       /\ args' = in
       /\ ret' = generatePayoffData(QuarterDollars(in.K), QuarterDollars(in.premium),
                                    in.optionType, in.currentPrice,
                                    Literal(in.range.n, in.range.d))

CallGenerateHeatmapData ==
  /\ op = "idle"
  /\ \E in \in HeatmapInputs :
       /\ op' = "generateHeatmapData"
       /\ args' = in
       /\ ret' = generateHeatmapData(in.K, in.premium, in.optionType,
                                     in.currentPrice, in.daysToExpiry,
                                     in.sigma, in.r)

\* handleBuildStrategy calls buildLegs(baseStrike) and leaves the other
\* parameters undefined; the base strike is in dollars.
CallBuildLegs ==
  /\ op = "idle"
  /\ \E template \in DOMAIN STRATEGY_TEMPLATES, baseStrike \in {0, 97, 100},
        expiry \in {"undefined", "2026-01-16"}, baseIV \in {"undefined", "0.3"} :
       /\ op' = "buildLegs"
       /\ args' = [template |-> template, baseStrike |-> baseStrike,
                   expiry |-> expiry, baseIV |-> baseIV]
       /\ ret' = buildLegs(template, baseStrike, expiry, baseIV)

CallHandleBuildStrategy ==
  /\ op = "idle"
  /\ \E in \in BuildInputs :
       /\ op' = "handleBuildStrategy"
       /\ args' = in
       /\ ret' = handleBuildStrategy(in.selectedStrategy, in.baseStrike,
                                     in.strikeWidth,
                                     ChainOf(in.selectedExpiry, in.withPuts))

\* The strategy functions on legs that a caller may pass by mistake, called
\* at the midnight or the noon of 2026-11-04 with the stock at $105.
CallCalculateStrategyPnLJs ==
  /\ op = "idle"
  /\ \E legs \in OddStrategies, atExpiration \in BOOLEAN, now \in {0, 12},
        daysFromNow \in {0, 30} :
       /\ op' = "calculateStrategyPnLJs"
       /\ args' = [legs |-> legs, stockPrice |-> Whole(105),
                   atExpiration |-> atExpiration, now |-> now,
                   daysFromNow |-> daysFromNow, r |-> Milli(50)]
       /\ ret' = calculateStrategyPnLJs(legs, JsNum(Whole(105)), atExpiration,
                                        JsNum(Whole(now)), daysFromNow,
                                        JsNum(Milli(50)))

CallCalculateStrategyGreeksJs ==
  /\ op = "idle"
  /\ \E legs \in OddStrategies, now \in {0, 12} :
       /\ op' = "calculateStrategyGreeksJs"
       /\ args' = [legs |-> legs, stockPrice |-> Whole(105), now |-> now,
                   r |-> Milli(50)]
       /\ ret' = calculateStrategyGreeksJs(legs, JsNum(Whole(105)),
                                           JsNum(Whole(now)), JsNum(Milli(50)))

CallCalculateStrategyMetricsJs ==
  /\ op = "idle"
  /\ \E legs \in OddStrategies :
       /\ op' = "calculateStrategyMetricsJs"
       /\ args' = [legs |-> legs, currentPrice |-> Dollars(105),
                   range |-> DefaultRange]
       /\ ret' = calculateStrategyMetrics(InThousandths(legs), Dollars(105),
                                          DefaultRange)

\* calculateStrategyPnL([leg], calculateBreakEven(K, premium, optionType), true)
CallPnLAtBreakEven ==
  /\ op = "idle"
  /\ \E leg \in LiteralLegs :
       /\ op' = "pnlAtBreakEven"
       /\ args' = [leg |-> leg]
       /\ ret' = calculateStrategyPnLDouble(
                   <<AsDoubles(leg)>>,
                   calculateBreakEvenDouble(AsDoubles(leg).strike,
                                            AsDoubles(leg).premium, leg.optionType))

CallGenerateMultiDatePayoffData ==
  /\ op = "idle"
  /\ \E in \in MultiDateInputs :
       /\ op' = "generateMultiDatePayoffData"
       /\ args' = in
       /\ ret' = generateMultiDatePayoffData(in.legs, in.currentPrice,
                                             in.daysToExpiry,
                                             Literal(in.range.n, in.range.d),
                                             in.dateCount, in.now)

\* normalCDF is not exported; the pricer calls it with d1, d2 and their
\* negations.  Here it is applied to an argument of its own.
CallNormalCDF ==
  /\ op = "idle"
  /\ \E x \in Deviates :
       /\ op' = "normalCDF"
       /\ args' = [x |-> x]
       /\ ret' = normalCDF(x)

\* The caller takes the value and discards the call.
Return ==
  /\ op # "idle"
  /\ op' = "idle"
  /\ args' = <<>>
  /\ ret' = <<>>

Next ==
  \/ CallCalculateBreakEven
  \/ CallCalculateStrategyPnL
  \/ CallCalculateStrategyPnLBefore
  \/ CallCalculateStrategyGreeks
  \/ CallGeneratePayoffData
  \/ CallGenerateHeatmapData
  \/ CallBuildLegs
  \/ CallHandleBuildStrategy
  \/ CallPnLAtBreakEven
  \/ CallGenerateMultiDatePayoffData
  \/ CallCalculateStrategyPnLJs
  \/ CallCalculateStrategyGreeksJs
  \/ CallCalculateStrategyMetricsJs
  \/ CallCalculateStrategyMetrics
  \/ CallCalculateOptionPrice
  \/ CallCalculateGreeks
  \/ CallNormalCDF
  \/ Return

Spec == Init /\ [][Next]_vars

\* ------------------------------------------------------------------------
\* The price loops, one pass at a time
\*
\* The five functions that walk a range of prices, with the loop of each
\* taken pass by pass: the call in progress holds the price of the loop
\* variable, the limits and the step, all doubles, and the length of the
\* list the passes have pushed to.  What a pass pushes is given by the
\* functions above; here only the control of the loop is followed.
\* ------------------------------------------------------------------------

\* The length of the list is kept modulo this number, which no loop that
\* ends reaches.
PointsModulus == 128

\* The functions whose loop goes up from minPrice by (maxPrice - minPrice) / n.
RangeWalkers ==
  [generatePayoffData |-> PayoffSteps,
   generateStrategyPayoffData |-> PayoffSteps,
   generateMultiDatePayoffData |-> MultiDateSteps]

\* |maxPrice - minPrice| / n: the step, and its magnitude when maxPrice is
\* below minPrice, where the loop makes no pass.
StepOf(minPrice, maxPrice, n) ==
  IF Below(maxPrice, minPrice) THEN Quotient(Difference(minPrice, maxPrice), n)
  ELSE Quotient(Difference(maxPrice, minPrice), n)

\* minPrice = Math.max(0, currentPrice * (1 - range)), maxPrice =
\* currentPrice * (1 + range) and step, for a whole currentPrice and
\* 0 <= range <= 1; the loop starts at minPrice.
RangeWalk(currentPrice, range, n) ==
  LET minPrice == Larger(DoubleZero, Product(Difference(DoubleOne, range), currentPrice))
      maxPrice == Product(Sum(DoubleOne, range), currentPrice)
  IN [price |-> minPrice, minPrice |-> minPrice, maxPrice |-> maxPrice,
      step |-> StepOf(minPrice, maxPrice, n), down |-> FALSE, points |-> 0]

\* calculateStrategyMetrics: minPrice = Math.max(0.01, ...), step = 0.5.
MetricsWalk(currentPrice, range) ==
  LET minPrice == Larger(Literal(1, 100),
                         Product(Difference(DoubleOne, range), currentPrice))
      maxPrice == Product(Sum(DoubleOne, range), currentPrice)
  IN [price |-> minPrice, minPrice |-> minPrice, maxPrice |-> maxPrice,
      step |-> Literal(1, 2), down |-> FALSE, points |-> 0]

\* generateHeatmapData: minPrice = Math.max(1, currentPrice * 0.75),
\* maxPrice = currentPrice * 1.25, for any currentPrice (0.75 and 1.25 are
\* doubles, so each product is the exact one rounded once); the loop
\* starts at maxPrice and goes down.
HeatmapWalk(currentPrice) ==
  LET minPrice == Larger(DoubleOne, Quotient(TimesWhole(currentPrice, 3), 4))
      maxPrice == Quotient(TimesWhole(currentPrice, 5), 4)
  IN [price |-> maxPrice, minPrice |-> minPrice, maxPrice |-> maxPrice,
      step |-> StepOf(minPrice, maxPrice, HeatmapSteps), down |-> TRUE,
      points |-> 0]

\* The test of the loop: price <= maxPrice going up, p >= minPrice going
\* down.
LoopTest(walk) ==
  IF walk.down THEN ~Below(walk.price, walk.minPrice)
  ELSE ~Below(walk.maxPrice, walk.price)

\* The body (one push) and price += step, or p -= priceStep.  A price going
\* down ends the loop when it would pass zero: minPrice is at least 1.
AfterPass(walk) ==
  [walk EXCEPT !.price = IF ~walk.down THEN Sum(walk.price, walk.step)
                         ELSE IF Below(walk.price, walk.step) THEN DoubleZero
                         ELSE Difference(walk.price, walk.step),
               !.points = (walk.points + 1) % PointsModulus]

\* Whole current prices and ranges of a chart, zero among both.
WalkInputs ==
  {[currentPrice |-> c, range |-> g] :
     c \in {0, 20}, g \in {[n |-> 0, d |-> 1], [n |-> 3, d |-> 10], [n |-> 1, d |-> 1]}}

\* Current prices of a heatmap: 0, 0.8 (where 1.25 times the price is the
\* clamp of 1), 1 and 20.
HeatmapPrices == {[n |-> 0, d |-> 1], [n |-> 4, d |-> 5], [n |-> 1, d |-> 1], [n |-> 20, d |-> 1]}

EnterRangeWalk ==
  /\ op = "idle"
  /\ \E f \in DOMAIN RangeWalkers, in \in WalkInputs :
       /\ op' = f
       /\ args' = in
       /\ ret' = RangeWalk(in.currentPrice, Literal(in.range.n, in.range.d),
                           RangeWalkers[f]) @@ [running |-> TRUE]

EnterMetricsWalk ==
  /\ op = "idle"
  /\ \E c \in {0, 20} :
       /\ op' = "calculateStrategyMetrics"
       /\ args' = [currentPrice |-> c, range |-> [n |-> 1, d |-> 2]]
       /\ ret' = MetricsWalk(c, Literal(1, 2)) @@ [running |-> TRUE]

EnterHeatmapWalk ==
  /\ op = "idle"
  /\ \E c \in HeatmapPrices :
       /\ op' = "generateHeatmapData"
       /\ args' = [currentPrice |-> c]
       /\ ret' = HeatmapWalk(Literal(c.n, c.d)) @@ [running |-> TRUE]

\* One pass of the loop.
LoopPass ==
  /\ op # "idle"
  /\ ret.running
  /\ LoopTest(ret)
  /\ ret' = AfterPass(ret)
  /\ UNCHANGED <<op, args>>

\* The test fails: the loop is over and the function goes on to return.
LoopExit ==
  /\ op # "idle"
  /\ ret.running
  /\ ~LoopTest(ret)
  /\ ret' = [ret EXCEPT !.running = FALSE]
  /\ UNCHANGED <<op, args>>

\* The function returns.
LoopReturn ==
  /\ op # "idle"
  /\ ~ret.running
  /\ op' = "idle"
  /\ args' = <<>>
  /\ ret' = <<>>

LoopNext ==
  \/ EnterRangeWalk
  \/ EnterMetricsWalk
  \/ EnterHeatmapWalk
  \/ LoopPass
  \/ LoopExit
  \/ LoopReturn

\* A call that has started runs on: the code is one thread and nothing
\* suspends it between two passes.
LoopSpec ==
  /\ Init
  /\ [][LoopNext]_vars
  /\ WF_vars(LoopPass) /\ WF_vars(LoopExit) /\ WF_vars(LoopReturn)

\* ------------------------------------------------------------------------
\* Properties
\* ------------------------------------------------------------------------

\* The quantity of a leg as the specification counts it: 1 when left out.
Quantity(leg) == IF Has(leg, "qty") THEN leg.qty ELSE 1

Sign(action) == IF action = "buy" THEN 1 ELSE -1

Intrinsic(leg, S) ==
  IF leg.optionType = "call" THEN Max(0, S - leg.strike) ELSE Max(0, leg.strike - S)

\* The sum over the legs of f.
RECURSIVE SumOverLegs(_, _)
SumOverLegs(f(_), legs) ==
  IF legs = <<>> THEN 0 ELSE f(Head(legs)) + SumOverLegs(f, Tail(legs))

ExpirationPnLFormula(legs, S) ==
  LET contribution(leg) ==
        Sign(leg.action) * (Intrinsic(leg, S) - leg.premium) * 100 * Quantity(leg)
  IN SumOverLegs(contribution, legs)

\* C1: at expiration calculateStrategyPnL(legs, S) is the sum over the legs of
\* sign(action) * (intrinsic(S) - premium) * 100 * qty, with sign(buy) = +1
\* and sign(sell) = -1; an empty leg list gives 0.
C1_ExpirationPnLIsSumOfLegs ==
  op = "calculateStrategyPnL" =>
    /\ ret = ExpirationPnLFormula(args.legs, args.stockPrice)
    /\ args.legs = <<>> => ret = 0

\* A sold call in the money beside a bought put out of the money, with a
\* quantity of 2 on one of them.
C1_Witness ==
  /\ op = "calculateStrategyPnL"
  /\ Len(args.legs) = 2
  /\ args.legs[1].optionType = "call" /\ args.legs[1].action = "sell"
  /\ args.legs[1].strike < args.stockPrice
  /\ args.legs[2].optionType = "put" /\ args.legs[2].action = "buy"
  /\ Has(args.legs[2], "qty") /\ ~Has(args.legs[1], "qty")
  /\ ret = ExpirationPnLFormula(args.legs, args.stockPrice)
  /\ ret < 0

IsStraddleCall ==
  /\ op = "calculateStrategyMetrics"
  /\ args.legs = LongStraddle
  /\ args.currentPrice = Dollars(100)
  /\ args.range = DefaultRange

\* C2: the long straddle (buy call 100 at 5, buy put 100 at 5) at
\* currentPrice 100 has breakevens exactly [90, 110], maxLoss -1000 and
\* maxProfit +Infinity.
C2_StraddleMetrics ==
  IsStraddleCall =>
    /\ ret.breakevens = <<Dollars(90), Dollars(110)>>
    /\ ret.maxLoss = Fin(-Dollars(1000))
    /\ ret.maxProfit = PosInfinity

\* An iron condor put buy@85, put sell@90, call sell@110, call buy@115, one
\* contract each, with non-negative premiums.
IsIronCondor(legs) ==
  /\ Len(legs) = 4
  /\ \A i \in 1..4 : legs[i].premium >= 0 /\ Quantity(legs[i]) = 1
  /\ legs[1].optionType = "put" /\ legs[1].action = "buy" /\ legs[1].strike = Dollars(85)
  /\ legs[2].optionType = "put" /\ legs[2].action = "sell" /\ legs[2].strike = Dollars(90)
  /\ legs[3].optionType = "call" /\ legs[3].action = "sell" /\ legs[3].strike = Dollars(110)
  /\ legs[4].optionType = "call" /\ legs[4].action = "buy" /\ legs[4].strike = Dollars(115)

NetCreditPerShare(legs) ==
  legs[2].premium + legs[3].premium - legs[1].premium - legs[4].premium

IsCreditCondorCall ==
  /\ op = "calculateStrategyMetrics"
  /\ IsIronCondor(args.legs)
  /\ NetCreditPerShare(args.legs) = Dollars(2)
  /\ args.currentPrice = Dollars(100)

IntrinsicFormula(S, K, optionType) ==
  IF optionType = "call"
  THEN (IF Less(K, S) THEN Sub(S, K) ELSE Whole(0))
  ELSE (IF Less(S, K) THEN Sub(K, S) ELSE Whole(0))

Positive(a) == Less(Whole(0), a)

\* C4: calculateOptionPrice returns the intrinsic value whenever T <= 0 or
\* sigma <= 0, including sigma <= 0 with T > 0.
C4_DegeneratePriceIsIntrinsic ==
  (op = "calculateOptionPrice" /\ (~Positive(args.T) \/ ~Positive(args.sigma))) =>
    ret = IntrinsicFormula(args.S, args.K, args.optionType)

\* C5: for T = 0 and for every T < 0, whatever r and sigma,
\* calculateOptionPrice is max(0, S - K) for a call and max(0, K - S) for a put.
C5_ExpiredPriceIsIntrinsic ==
  (op = "calculateOptionPrice" /\ ~Positive(args.T)) =>
    ret = IntrinsicFormula(args.S, args.K, args.optionType)

\* A call in the money at T = 0 exactly, with volatility and a rate.
C5_Witness ==
  /\ op = "calculateOptionPrice"
  /\ IsZero(args.T)
  /\ Positive(args.sigma) /\ Positive(args.r)
  /\ args.optionType = "call"
  /\ Less(args.K, args.S)
  /\ ret = Sub(args.S, args.K)

\* C6: when T <= 0 or sigma <= 0, calculateGreeks returns gamma = theta =
\* vega = rho = 0, price = intrinsic value, and the step function for delta:
\* 1 if S > K else 0 for a call, -1 if S < K else 0 for a put, so 0 at S = K.
C6_DegenerateGreeks ==
  (op = "calculateGreeks" /\ (~Positive(args.T) \/ ~Positive(args.sigma))) =>
    /\ IsZero(ret.gamma) /\ IsZero(ret.theta) /\ IsZero(ret.vega) /\ IsZero(ret.rho)
    /\ ret.price = IntrinsicFormula(args.S, args.K, args.optionType)
    /\ args.optionType = "call" =>
         ret.delta = IF Less(args.K, args.S) THEN Whole(1) ELSE Whole(0)
    /\ args.optionType = "put" =>
         ret.delta = IF Less(args.S, args.K) THEN Whole(-1) ELSE Whole(0)
    /\ args.S = args.K => IsZero(ret.delta)

\* A call at the money with time to run and no volatility.
C6_Witness ==
  /\ op = "calculateGreeks"
  /\ Positive(args.T) /\ IsZero(args.sigma)
  /\ args.S = args.K
  /\ args.optionType = "call"
  /\ IsZero(ret.delta) /\ IsZero(ret.price)

\* 1e-6
ParityTolerance == Nano(1000)

\* call - put - (S - K * exp(-r * T)) for the arguments of the call in
\* progress, whose own value is one of the two prices.
ParityResidual ==
  LET price(t) == IF args.optionType = t THEN ret
                  ELSE calculateOptionPrice(args.S, args.K, args.T, args.r, args.sigma, t)
      forward == Sub(args.S, Times(args.K, Exp(Times(Neg(args.r), args.T))))
  IN Sub(Sub(price("call"), price("put")), forward)

\* C7: for S > 0, K > 0, T > 0 and sigma > 0, the call price minus the put
\* price is S - K * exp(-r * T) within 1e-6, also when d1 = 0 or d2 = 0.
C7_PutCallParity ==
  (/\ op = "calculateOptionPrice"
   /\ Positive(args.S) /\ Positive(args.K)
   /\ Positive(args.T) /\ Positive(args.sigma)) =>
    LessEq(Abs(ParityResidual), ParityTolerance)

\* C8: normalCDF(0) is exactly 0.5, and normalCDF(x) + normalCDF(-x) is 1 for
\* every x, x = 0 included.
C8_NormalCDFSymmetric ==
  op = "normalCDF" =>
    /\ IsZero(args.x) => ret = Half(Whole(1))
    /\ Add(ret, normalCDF(Neg(args.x))) = Whole(1)

\* C9: calculateBreakEven is K + premium for a call and K - premium for any
\* other type; K = 100, premium = 5 gives 105 for a call and 95 for a put.
C9_BreakEven ==
  op = "calculateBreakEven" =>
    /\ args.optionType = "call" => ret = args.K + args.premium
    /\ args.optionType # "call" => ret = args.K - args.premium
    /\ (args.K = Dollars(100) /\ args.premium = Dollars(5)) =>
         ret = IF args.optionType = "call" THEN Dollars(105) ELSE Dollars(95)

C9_Witness ==
  /\ op = "calculateBreakEven"
  /\ args.K = Dollars(100) /\ args.premium = Dollars(5)
  /\ args.optionType = "put"
  /\ ret = Dollars(95)

NetPremiumFormula(legs) ==
  LET received(leg) ==
        (IF leg.action = "sell" THEN 1 ELSE -1) * leg.premium * 100 * Quantity(leg)
  IN SumOverLegs(received, legs)

\* C10: netPremium is the sum over the legs of (+1 sell, -1 buy) * premium *
\* 100 * qty, isCredit = (netPremium > 0), isDebit = (netPremium < 0); the
\* two are never both true, and both are false exactly when netPremium = 0.
C10_NetPremium ==
  op = "calculateStrategyMetrics" =>
    /\ ret.netPremium = NetPremiumFormula(args.legs)
    /\ ret.isCredit = (ret.netPremium > 0)
    /\ ret.isDebit = (ret.netPremium < 0)
    /\ ~(ret.isCredit /\ ret.isDebit)
    /\ (~ret.isCredit /\ ~ret.isDebit) <=> (ret.netPremium = 0)

\* Two legs with a quantity of 2 whose premiums cancel.
C10_Witness ==
  /\ op = "calculateStrategyMetrics"
  /\ Len(args.legs) = 2
  /\ \A i \in 1..2 : Has(args.legs[i], "qty") /\ args.legs[i].premium > 0
  /\ ret.netPremium = 0
  /\ ~ret.isCredit /\ ~ret.isDebit

\* The prices from currentPrice * (1 - range), clamped below at 0.01, up to
\* currentPrice * (1 + range) in steps of 0.50.
VisitedPrices(currentPrice, range) ==
  LET first == Max(10, (currentPrice * (100 - range)) \div 100)
      last == (currentPrice * (100 + range)) \div 100
  IN {first + k * 500 : k \in 0..((last - first) \div 500)}

Maximum(S) == CHOOSE x \in S : \A y \in S : y <= x
Minimum(S) == CHOOSE x \in S : \A y \in S : x <= y

\* The at-expiration P&L over the visited prices.
VisitedPnL(legs, currentPrice, range) ==
  {ExpirationPnLFormula(legs, price) : price \in VisitedPrices(currentPrice, range)}

\* The lowest visited price at which the P&L is v.
LowestPriceAt(legs, currentPrice, range, v) ==
  Minimum({price \in VisitedPrices(currentPrice, range) :
             ExpirationPnLFormula(legs, price) = v})

IsFinite(x) == x.kind = "finite"

\* C11: with currentPrice > 0 and no side flagged unbounded, maxProfit is
\* the maximum and maxLoss the minimum of the at-expiration P&L over the
\* prices from currentPrice * (1 - range), clamped at 0.01, to
\* currentPrice * (1 + range) in steps of 0.50; maxLoss <= maxProfit; and
\* maxProfitPrice and maxLossPrice are the lowest visited prices at which
\* the extremes are attained.
C11_ScannedExtremes ==
  (/\ op = "calculateStrategyMetrics"
   /\ args.currentPrice > 0
   /\ IsFinite(ret.maxProfit) /\ IsFinite(ret.maxLoss)) =>
    LET pnls == VisitedPnL(args.legs, args.currentPrice, args.range)
    IN /\ pnls # {}
       /\ ret.maxProfit = Fin(Maximum(pnls))
       /\ ret.maxLoss = Fin(Minimum(pnls))
       /\ ret.maxLoss.v <= ret.maxProfit.v
       /\ ret.maxProfitPrice =
            LowestPriceAt(args.legs, args.currentPrice, args.range, Maximum(pnls))
       /\ ret.maxLossPrice =
            LowestPriceAt(args.legs, args.currentPrice, args.range, Minimum(pnls))

\* A scan that starts at the clamp, over a sold put: the profit is at its
\* maximum on every price from the strike up, the loss at its minimum at
\* the clamp only.
C11_Witness ==
  /\ op = "calculateStrategyMetrics"
  /\ args.currentPrice = Dollars(20) /\ args.range = 100
  /\ Len(args.legs) = 1
  /\ args.legs[1].optionType = "put" /\ args.legs[1].action = "sell"
  /\ IsFinite(ret.maxProfit) /\ IsFinite(ret.maxLoss)
  /\ ret.maxLossPrice = 10
  /\ ret.maxProfitPrice = args.legs[1].strike + 10
  /\ ret.maxLoss.v < ret.maxProfit.v

\* P&L that goes from negative to non-negative or from non-negative to
\* negative.
Crosses(before, after) ==
  (before < 0 /\ after >= 0) \/ (before >= 0 /\ after < 0)

\* The later prices of the pairs of consecutive scan prices between which
\* the at-expiration P&L crosses.
CrossingPrices(legs, currentPrice, range) ==
  {price \in VisitedPrices(currentPrice, range) :
     /\ price - 500 \in VisitedPrices(currentPrice, range)
     /\ Crosses(ExpirationPnLFormula(legs, price - 500),
                ExpirationPnLFormula(legs, price))}

StrictlyAscending(seq) ==
  \A i \in 1..(Len(seq) - 1) : seq[i] < seq[i + 1]

Range(seq) == {seq[i] : i \in 1..Len(seq)}

\* seq lists the members of S in ascending order, each once.
ListsAscending(seq, S) ==
  /\ StrictlyAscending(seq)
  /\ Range(seq) = S

\* C12: the breakevens are the later scan prices of the pairs of
\* consecutive scan prices whose P&L crosses, one for each pair and none
\* otherwise, in strictly ascending order.
C12_BreakevensAreScanPrices ==
  op = "calculateStrategyMetrics" =>
    ListsAscending(ret.breakevens,
                   CrossingPrices(args.legs, args.currentPrice, args.range))

\* The nearest whole cent, the upper one of two.
NearestCent(price) == 10 * ((price + 5) \div 10)

\* C12, amended: the breakevens are those prices rounded to the cent.
C12_BreakevensAreRoundedScanPrices ==
  op = "calculateStrategyMetrics" =>
    ListsAscending(ret.breakevens,
                   {NearestCent(price) :
                      price \in CrossingPrices(args.legs, args.currentPrice, args.range)})

\* A crossing at a scan price that is not a whole number of cents, and
\* that rounds to the cent above.
C12_Witness ==
  /\ op = "calculateStrategyMetrics"
  /\ \E price \in CrossingPrices(args.legs, args.currentPrice, args.range) :
       /\ NearestCent(price) > price
       /\ Range(ret.breakevens) = {NearestCent(price)}

\* The at-expiration P&L at 3 * currentPrice is greater than 1.5 times the
\* scanned maximum (-Infinity when the scan visits no price).
FarCallExceeds(legs, currentPrice, range) ==
  \/ VisitedPnL(legs, currentPrice, range) = {}
  \/ 2 * ExpirationPnLFormula(legs, 3 * currentPrice)
       > 3 * Maximum(VisitedPnL(legs, currentPrice, range))

\* The at-expiration P&L at 0.1 * currentPrice is less than 1.5 times the
\* scanned minimum (+Infinity when the scan visits no price).
FarPutExceeds(legs, currentPrice, range) ==
  \/ VisitedPnL(legs, currentPrice, range) = {}
  \/ 2 * ExpirationPnLFormula(legs, currentPrice \div 10)
       < 3 * Minimum(VisitedPnL(legs, currentPrice, range))

\* C13: maxProfit is +Infinity exactly when the P&L at 3 * currentPrice is
\* greater than 1.5 times the scanned maximum, and maxLoss is -Infinity
\* exactly when the P&L at 0.1 * currentPrice is less than 1.5 times the
\* scanned minimum; otherwise they are the scanned extremes.  In either
\* case maxProfitPrice and maxLossPrice stay where the scan found the
\* extremes.
C13_UnboundedSides ==
  op = "calculateStrategyMetrics" =>
    LET pnls == VisitedPnL(args.legs, args.currentPrice, args.range)
        up == FarCallExceeds(args.legs, args.currentPrice, args.range)
        down == FarPutExceeds(args.legs, args.currentPrice, args.range)
    IN /\ ret.maxProfit = (IF up THEN PosInfinity ELSE Fin(Maximum(pnls)))
       /\ ret.maxLoss = (IF down THEN NegInfinity ELSE Fin(Minimum(pnls)))
       /\ pnls # {} =>
            /\ ret.maxProfitPrice =
                 LowestPriceAt(args.legs, args.currentPrice, args.range, Maximum(pnls))
            /\ ret.maxLossPrice =
                 LowestPriceAt(args.legs, args.currentPrice, args.range, Minimum(pnls))

\* A spread whose profit far above is the scanned maximum itself, not 1.5
\* times it, beside a loss that is unbounded below: a bought call spread
\* with a sold put.
C13_Witness ==
  /\ op = "calculateStrategyMetrics"
  /\ ~FarCallExceeds(args.legs, args.currentPrice, args.range)
  /\ ExpirationPnLFormula(args.legs, 3 * args.currentPrice) > 0
  /\ ExpirationPnLFormula(args.legs, 3 * args.currentPrice) = ret.maxProfit.v
  /\ IsFinite(ret.maxProfit)
  /\ ret.maxProfitPrice < (args.currentPrice * (100 + args.range)) \div 100

\* The days from now to a date, negative for a date in the past, as
\* Math.round gives them.
SignedDays(now, date) == (date - now + oneDay \div 2) \div oneDay

\* The value of a leg as the claim gives it: intrinsic when the signed
\* remaining time is not positive, calculateOptionPrice with the leg's own
\* iv otherwise.
ClaimedValue(leg, stockPrice, now, daysFromNow, r) ==
  LET remaining == SignedDays(now, leg.expiration) - daysFromNow
  IN IF remaining <= 0
     THEN IntrinsicFormula(stockPrice, leg.strike, leg.optionType)
     ELSE calculateOptionPrice(stockPrice, leg.strike,
            Over(Whole(remaining), Whole(365)), r, IvDefault(leg),
            leg.optionType)

RECURSIVE ClaimedPnLBefore(_, _, _, _, _, _)
ClaimedPnLBefore(legs, i, stockPrice, now, daysFromNow, r) ==
  IF i > Len(legs) THEN Whole(0)
  ELSE Add(ClaimedPnLBefore(legs, i + 1, stockPrice, now, daysFromNow, r),
           Times(Whole(Sign(legs[i].action) * 100 * Quantity(legs[i])),
                 Sub(ClaimedValue(legs[i], stockPrice, now, daysFromNow, r),
                     legs[i].premium)))

\* C14: before expiration, a leg whose signed remaining time (expiration -
\* now - daysFromNow, in days) is not positive, a leg that expired before
\* today included, is valued at its intrinsic value, and a leg with time
\* left is valued by calculateOptionPrice with its own iv.
C14_ExpiredLegsAtIntrinsic ==
  op = "calculateStrategyPnLBefore" =>
    ret = ClaimedPnLBefore(args.legs, 1, args.stockPrice, args.now,
                           args.daysFromNow, args.r)

GreekNames == {"delta", "gamma", "theta", "vega", "rho"}

\* max(0.001, daysToExpiry / 365): a day is more than 0.001 of a year.
FloorFormula(daysToExpiry) ==
  IF daysToExpiry = 0 THEN Milli(1) ELSE Over(Whole(daysToExpiry), Whole(365))

\* The Greeks of every leg by itself.
RECURSIVE GreeksOfLegs(_, _, _, _)
GreeksOfLegs(legs, stockPrice, now, r) ==
  IF legs = <<>> THEN <<>>
  ELSE <<calculateGreeks(stockPrice, Head(legs).strike,
                         FloorFormula(daysBetween(now, Head(legs).expiration)),
                         r, IvDefault(Head(legs)), Head(legs).optionType)>>
       \o GreeksOfLegs(Tail(legs), stockPrice, now, r)

\* The sum over the legs from i on of sign(action) * qty * the Greek.
RECURSIVE SumOfGreeks(_, _, _, _)
SumOfGreeks(legs, greeks, name, i) ==
  IF i > Len(legs) THEN Whole(0)
  ELSE Add(Times(Whole(Sign(legs[i].action) * Quantity(legs[i])), greeks[i][name]),
           SumOfGreeks(legs, greeks, name, i + 1))

\* A bought leg and a sold leg that is the same in everything else.
IsOffsettingPair(legs) ==
  /\ Len(legs) = 2
  /\ legs[1].action = "buy"
  /\ legs[2] = [legs[1] EXCEPT !.action = "sell"]

ClaimedPrice(in, i) ==
  in.currentPrice * (100 * (in.range.d - in.range.n) + 2 * in.range.n * (i - 1))

\* d times the intrinsic value at the i-th price, in cents.
ClaimedIntrinsic(in, i) ==
  IF in.optionType = "call"
  THEN Max(0, ClaimedPrice(in, i) - 25 * in.K * in.range.d)
  ELSE Max(0, 25 * in.K * in.range.d - ClaimedPrice(in, i))

\* cents is value / d rounded to a whole number of cents, either way at a
\* tie.
IsRounded(cents, value, d) ==
  /\ 2 * (cents * d - value) <= d
  /\ 2 * (value - cents * d) <= d

\* The i-th point is the one of the claim.
IsClaimedPoint(point, in, i) ==
  /\ IsRounded(point.stockPrice, ClaimedPrice(in, i), in.range.d)
  /\ IsRounded(point.pnl,
               ClaimedIntrinsic(in, i) - 25 * in.premium * in.range.d,
               in.range.d)

\* C16: for currentPrice > 0 and 0 < range <= 1, generatePayoffData returns
\* points in strictly ascending stockPrice order, from currentPrice * (1 -
\* range) in 100 equal steps to currentPrice * (1 + range), and the pnl of
\* each is the intrinsic value at its price less the premium, in cents.
C16_PayoffSpansTheRange ==
  op = "generatePayoffData" =>
    /\ Len(ret) = 101
    /\ \A i \in 1..Len(ret) : IsClaimedPoint(ret[i], args, i)
    /\ \A i \in 1..(Len(ret) - 1) : ret[i].stockPrice < ret[i + 1].stockPrice

\* C17: for a whole daysToExpiry >= 0 the dateIntervals are strictly
\* increasing, begin with 0, end with daysToExpiry and are at most 8 equal
\* steps: at most 9 day offsets and at most one more for the last day.
C17_DateIntervals ==
  op = "generateHeatmapData" =>
    /\ StrictlyAscending(ret.dateIntervals)
    /\ ret.dateIntervals[1] = 0
    /\ ret.dateIntervals[Len(ret.dateIntervals)] = args.daysToExpiry
    /\ Len(ret.dateIntervals) <= 10
    /\ \A i \in 2..(Len(ret.dateIntervals) - 1) :
         ret.dateIntervals[i] - ret.dateIntervals[i - 1] = ret.dateIntervals[2]

\* 60 times the price of the i-th row of the claim, in cents: currentPrice *
\* 1.25 and i - 1 steps of currentPrice * 0.5 / 15 down.
ClaimedRowPrice(currentPrice, i) == currentPrice * (7500 - 200 * (i - 1))

\* The cell of the claim for a row price in cents.
ClaimedCell(in, rowPrice, d) ==
  PricerCents(Sub(calculateOptionPrice(Milli(10 * rowPrice), in.K,
                    Over(Whole(in.daysToExpiry - d), Whole(365)), in.r, in.sigma,
                    in.optionType),
                  in.premium))

\* Intrinsic value less the premium for a row price in cents.
ClaimedLastCell(in, rowPrice) ==
  PricerCents(Sub(IntrinsicFormula(Milli(10 * rowPrice), in.K, in.optionType),
                  in.premium))

\* C18: for currentPrice * 0.75 >= 1, generateHeatmapData returns 16 rows
\* whose prices run from currentPrice * 1.25 down to currentPrice * 0.75 in 15
\* equal steps; each cell is calculateOptionPrice(rowPrice, K, (daysToExpiry
\* - d) / 365, r, sigma, type) - premium in cents, and the column of d =
\* daysToExpiry is the intrinsic value less the premium.
C18_HeatmapGrid ==
  op = "generateHeatmapData" =>
    /\ Len(ret.pricePoints) = 16
    /\ DOMAIN ret.data = 1..Len(ret.pricePoints)
    /\ \A i \in 1..Len(ret.pricePoints) :
         /\ IsRounded(ret.pricePoints[i], ClaimedRowPrice(args.currentPrice, i), 60)
         /\ ret.data[i].stockPrice = ret.pricePoints[i]
         /\ \A d \in DOMAIN ret.data[i].day :
              ret.data[i].day[d] = ClaimedCell(args, ret.pricePoints[i], d)
         /\ ret.data[i].day[args.daysToExpiry] =
              ClaimedLastCell(args, ret.pricePoints[i])

\* The strategies that the spec names, by the key of their template.
NamedStrategies ==
  {"longCall", "longPut", "coveredCall", "bullCallSpread", "bearCallSpread",
   "bullPutSpread", "bearPutSpread", "straddle", "strangle", "ironCondor",
   "ironButterfly", "callButterfly", "putButterfly", "calendarSpread",
   "diagonalSpread"}

\* C19, as stated: STRATEGY_TEMPLATES contains exactly 14 templates, one for
\* each strategy named in the spec.
C19_FourteenTemplates ==
  op = "buildLegs" =>
    /\ Cardinality(DOMAIN STRATEGY_TEMPLATES) = 14
    /\ DOMAIN STRATEGY_TEMPLATES = NamedStrategies

\* C19, amended: STRATEGY_TEMPLATES contains exactly 15 templates, one for
\* each of the 15 strategies that the spec names, and every one of them can
\* be built.
C19_FifteenTemplates ==
  op = "buildLegs" =>
    /\ Cardinality(DOMAIN STRATEGY_TEMPLATES) = 15
    /\ DOMAIN STRATEGY_TEMPLATES = NamedStrategies
    /\ args.template \in NamedStrategies
    /\ Len(ret) > 0

\* The fifteenth template has been built.
C19_Witness ==
  /\ op = "buildLegs"
  /\ args.template = "diagonalSpread"
  /\ Len(ret) = 2

\* The shape is a well-formed one, and its offset a whole number of width
\* units of 5.
IsShape(shape) ==
  /\ shape.optionType \in {"call", "put"}
  /\ shape.action \in {"buy", "sell"}
  /\ shape.strikeOffset % 5 = 0

\* The sum of sign(action) * qty over the shapes from i on.
RECURSIVE SignedQuantities(_, _)
SignedQuantities(shapes, i) ==
  IF i > Len(shapes) THEN 0
  ELSE Sign(shapes[i].action) * Quantity(shapes[i]) + SignedQuantities(shapes, i + 1)

Butterflies == {"callButterfly", "putButterfly"}

\* C20: every buildLegs returns the same list of shapes for all arguments;
\* every shape has an optionType of call or put, an action of buy or sell
\* and a strikeOffset that is a multiple of 5; the number of shapes is the
\* legs field of the template; qty is present on the middle leg of the two
\* butterflies only, where it is 2, so that the signed quantities of each
\* butterfly sum to 0.
C20_TemplateShapes ==
  /\ \A k \in DOMAIN STRATEGY_TEMPLATES :
       /\ Len(STRATEGY_TEMPLATES[k].buildLegs) = STRATEGY_TEMPLATES[k].legs
       /\ \A i \in 1..Len(STRATEGY_TEMPLATES[k].buildLegs) :
            Has(STRATEGY_TEMPLATES[k].buildLegs[i], "qty") <=>
              (k \in Butterflies /\ i = 2)
  /\ op = "buildLegs" =>
       /\ ret = STRATEGY_TEMPLATES[args.template].buildLegs
       /\ \A i \in 1..Len(ret) : IsShape(ret[i])
       /\ args.template \in Butterflies =>
            /\ ret[2].qty = 2
            /\ SignedQuantities(ret, 1) = 0

\* A butterfly built at a base strike of $97, with two contracts in the
\* middle.
C20_Witness ==
  /\ op = "buildLegs"
  /\ args.template = "callButterfly"
  /\ args.baseStrike = 97
  /\ Len(ret) = 3
  /\ ret[2].qty = 2

\* The position of the shape of a template that has the mark, 0 if none.
MarkedLeg(template, mark) ==
  LET shapes == STRATEGY_TEMPLATES[template].buildLegs
      marked == {i \in 1..Len(shapes) : Has(shapes[i], mark)}
  IN IF marked = {} THEN 0 ELSE CHOOSE i \in marked : TRUE

\* C21: when handleBuildStrategy binds a template of two expirations
\* (calendarSpread, diagonalSpread), the leg marked isNearTerm gets an
\* expiration date earlier than that of the leg marked isFarTerm.
C21_TwoExpirations ==
  (/\ op = "handleBuildStrategy"
   /\ args.selectedStrategy \in DOMAIN MultipleExpiryTemplates
   /\ ret.error = "")
  => ret.builtLegs[MarkedLeg(args.selectedStrategy, "isNearTerm")].expiration
       < ret.builtLegs[MarkedLeg(args.selectedStrategy, "isFarTerm")].expiration

\* C22: two calls of an engine operation with identical arguments return
\* identical results, whatever the time at which each call is made.  The
\* operations that read no clock (calculateOptionPrice, calculateGreeks,
\* calculateStrategyPnL at expiration, calculateStrategyMetrics) have no
\* time to depend on; for the two that call new Date(), the value returned
\* is the value of the same call made at any other time of the day.
C22_SameArgumentsSameResult ==
  /\ op = "calculateStrategyPnLBefore" =>
       \A now \in Clock :
         calculateStrategyPnLBefore(args.legs, args.stockPrice, now,
                                    args.daysFromNow, args.r) = ret
  /\ op = "calculateStrategyGreeks" =>
       \A now \in Clock :
         calculateStrategyGreeks(args.legs, args.stockPrice, now, args.r) = ret

\* C23: every call of generatePayoffData, generateStrategyPayoffData,
\* generateMultiDatePayoffData, generateHeatmapData and
\* calculateStrategyMetrics terminates, for currentPrice >= 0 and
\* range >= 0, with currentPrice = 0, range = 0 and a zero step among them:
\* a call in progress leads to the caller having its result.
C23_EveryCallReturns == (op # "idle") ~> (op = "idle")

\* The leg's expiration is a string that new Date() cannot read.
Unparsable(leg) == leg.expiration \notin DOMAIN Calendar

\* The leg is priced by the formula with a negative strike: its date can
\* be read, and days are left when daysFromNow days have gone by (the
\* Greeks floor the time left at 0.001 year, so they always price it).
NegativeStrikePriced(leg, now, daysFromNow, floored) ==
  /\ ~Unparsable(leg)
  /\ leg.strike[1] < 0
  /\ floored \/ daysBetween(now, Calendar[leg.expiration]) - daysFromNow > 0

\* C24: calculateStrategyPnL (in both modes), calculateStrategyGreeks and
\* calculateStrategyMetrics raise no error for well-formed legs whose
\* expiration cannot be parsed or whose strike is zero or negative: every
\* returned number is a number, NaN where a leg is priced with an
\* unreadable date or a negative strike, finite or infinite elsewhere.
C24_OddLegsRaiseNothing ==
  /\ op = "calculateStrategyPnLJs" =>
       ret.kind =
         (IF /\ ~args.atExpiration
             /\ \E i \in 1..Len(args.legs) :
                  \/ Unparsable(args.legs[i])
                  \/ NegativeStrikePriced(args.legs[i], args.now,
                                          args.daysFromNow, FALSE)
          THEN "NaN" ELSE "finite")
  /\ op = "calculateStrategyGreeksJs" =>
       \A greek \in {"delta", "gamma", "theta", "vega", "rho"} :
         ret[greek].kind =
           (IF \E i \in 1..Len(args.legs) :
                 \/ Unparsable(args.legs[i])
                 \/ NegativeStrikePriced(args.legs[i], args.now, 0, TRUE)
            THEN "NaN" ELSE "finite")
  /\ op = "calculateStrategyMetricsJs" =>
       /\ ret.maxProfit.kind \in {"finite", "+Infinity"}
       /\ ret.maxLoss.kind \in {"finite", "-Infinity"}
       /\ ret.netPremium \in Int
       /\ \A i \in 1..Len(ret.breakevens) : ret.breakevens[i] \in Int

\* A position with a leg whose expiration is no date was valued before
\* expiration and the value is NaN.
C24_Witness ==
  /\ op = "calculateStrategyPnLJs"
  /\ ~args.atExpiration
  /\ Len(args.legs) = 2
  /\ args.legs[2].expiration = "not a date"
  /\ args.legs[2].strike = Whole(0)
  /\ ret = NaN

\* The signed call quantity of a strategy: buy = +qty, sell = -qty, summed
\* over its calls.  Above every strike the P&L at expiration rises or falls
\* by 100 times this for each dollar of the stock.
RECURSIVE CallQuantityFrom(_, _)
CallQuantityFrom(legs, i) ==
  IF i > Len(legs) THEN 0
  ELSE (IF legs[i].optionType = "call"
        THEN (IF legs[i].action = "buy" THEN 1 ELSE -1) * QtyDefault(legs[i])
        ELSE 0)
       + CallQuantityFrom(legs, i + 1)

SignedCallQuantity(legs) == CallQuantityFrom(legs, 1)

\* C25: a strategy whose loss at expiration grows without bound as the
\* stock rises (signed call quantity negative) is reported with
\* maxLoss = -Infinity, and one whose profit grows without bound (signed
\* call quantity positive) with maxProfit = +Infinity.  Stated at current
\* prices above 0, where the scan visits prices.
C25_UnboundedSidesAreReported ==
  (op = "calculateStrategyMetrics" /\ args.currentPrice > 0) =>
    /\ SignedCallQuantity(args.legs) < 0 => ret.maxLoss = NegInfinity
    /\ SignedCallQuantity(args.legs) > 0 => ret.maxProfit = PosInfinity

\* C26: maxProfit = +Infinity is reported only for a strategy that is
\* unbounded above (signed call quantity positive) and maxLoss = -Infinity
\* only for one that is unbounded below (signed call quantity negative): a
\* bounded payoff gets finite extremes.  Stated at current prices above 0.
C26_OnlyUnboundedSidesAreReported ==
  (op = "calculateStrategyMetrics" /\ args.currentPrice > 0) =>
    /\ ret.maxProfit = PosInfinity => SignedCallQuantity(args.legs) > 0
    /\ ret.maxLoss = NegInfinity => SignedCallQuantity(args.legs) < 0

\* The price is one that the scan of calculateStrategyMetrics visits.
OnScanGrid(price, currentPrice, range) ==
  /\ Max(MinScanPrice, (currentPrice * (100 - range)) \div 100) <= price
  /\ price <= (currentPrice * (100 + range)) \div 100
  /\ (price - Max(MinScanPrice, (currentPrice * (100 - range)) \div 100))
        % ScanStep = 0

\* The legs are a bull call spread: a call bought at K1 and a call sold at
\* K2 > K1, one contract each, both strikes visited by the scan.
IsBullCallSpread(legs, currentPrice, range) ==
  /\ Len(legs) = 2
  /\ legs[1].optionType = "call" /\ legs[1].action = "buy"
  /\ legs[2].optionType = "call" /\ legs[2].action = "sell"
  /\ QtyDefault(legs[1]) = 1 /\ QtyDefault(legs[2]) = 1
  /\ legs[1].strike < legs[2].strike
  /\ OnScanGrid(legs[1].strike, currentPrice, range)
  /\ OnScanGrid(legs[2].strike, currentPrice, range)

\* C27: for a bull call spread whose strikes the scan visits, maxLoss is the
\* net debit, -(p1 - p2) * 100 = netPremium, and maxProfit is
\* (K2 - K1) * 100 + netPremium, both finite.
C27_BullCallSpreadMetrics ==
  (/\ op = "calculateStrategyMetrics"
   /\ IsBullCallSpread(args.legs, args.currentPrice, args.range)) =>
    /\ ret.netPremium = -(args.legs[1].premium - args.legs[2].premium) * 100
    /\ ret.maxLoss = Fin(ret.netPremium)
    /\ ret.maxProfit =
         Fin((args.legs[2].strike - args.legs[1].strike) * 100 + ret.netPremium)

\* 2^-30, less than a billionth.
Billionth == <<0, 0, 0, 4096, 0>>

\* The literal is a whole number of quarters, which sums and differences
\* of this size keep exactly.
InQuarters(literal) == 4 % literal.d = 0

AllOutOfTheMoney(legs, S) ==
  \A i \in 1..Len(legs) :
    IF legs[i].optionType = "call" THEN S <= legs[i].strike ELSE S >= legs[i].strike

\* The premiums of the legs from i on whose quantity is 0, received for a
\* sold leg and paid for a bought one, times 100.
RECURSIVE ZeroQuantityPremiums(_, _)
ZeroQuantityPremiums(legs, i) ==
  IF i > Len(legs) THEN 0
  ELSE (IF Has(legs[i], "qty") /\ legs[i].qty = 0
        THEN (IF legs[i].action = "buy" THEN -1 ELSE 1) * legs[i].premium * 100
        ELSE 0)
       + ZeroQuantityPremiums(legs, i + 1)

\* C29: at a price where every leg is out of or at the money the P&L at
\* expiration equals the netPremium of calculateStrategyMetrics when every
\* quantity is at least 1 or left out; a leg of quantity 0 adds nothing to
\* the P&L and its premium, once, to netPremium.
C29_PnLIsNetPremium ==
  (op = "calculateStrategyPnL" /\ AllOutOfTheMoney(args.legs, args.stockPrice)) =>
    ret = calculateStrategyMetrics(args.legs, Dollars(20), DefaultRange).netPremium
          - ZeroQuantityPremiums(args.legs, 1)

\* Two legs out of the money, one of them twice, with a P&L that is the
\* net premium and not 0.
C29_Witness ==
  /\ op = "calculateStrategyPnL"
  /\ Len(args.legs) = 2
  /\ AllOutOfTheMoney(args.legs, args.stockPrice)
  /\ \A i \in 1..2 : ~Has(args.legs[i], "qty") \/ args.legs[i].qty >= 1
  /\ Has(args.legs[2], "qty") /\ args.legs[2].qty = 2
  /\ ret # 0
  /\ ret = calculateStrategyMetrics(args.legs, Dollars(20), DefaultRange).netPremium

\* The value of price after so many passes of a loop that adds step; the
\* test of the price, which is never below 0, has it computed pass by pass.
RECURSIVE PriceAfter(_, _, _)
PriceAfter(price, step, passes) ==
  IF passes = 0 \/ Below(price, DoubleZero) THEN price
  ELSE PriceAfter(Sum(price, step), step, passes - 1)

\* The P&L at expiration, in cents, at the price of the row of that number.
ExpirationCents(in, row) ==
  SignedCents(
    calculateStrategyPnLDouble(
      [i \in 1..Len(in.legs) |-> AsDoubles(in.legs[i])],
      PriceAfter(Product(Difference(DoubleOne, Literal(in.range.n, in.range.d)),
                         in.currentPrice),
                 Quotient(Difference(
                            Product(Sum(DoubleOne, Literal(in.range.n, in.range.d)),
                                    in.currentPrice),
                            Product(Difference(DoubleOne, Literal(in.range.n, in.range.d)),
                                    in.currentPrice)),
                          MultiDateSteps),
                 row - 1)))

\* C30: the dateIntervals of generateMultiDatePayoffData are strictly
\* increasing, begin with 0 and end with daysToExpiry; every row has one
\* day<d> value for each interval, and the column of daysToExpiry is the
\* P&L at expiration at the row's price, rounded to cents.
C30_MultiDateColumns ==
  op = "generateMultiDatePayoffData" =>
    /\ \A i \in 1..(Len(ret.dateIntervals) - 1) :
         ret.dateIntervals[i] < ret.dateIntervals[i + 1]
    /\ ret.dateIntervals[1] = 0
    /\ ret.dateIntervals[Len(ret.dateIntervals)] = args.daysToExpiry
    /\ \A row \in 1..Len(ret.data) :
         /\ DOMAIN ret.data[row].day =
              {ret.dateIntervals[i] : i \in 1..Len(ret.dateIntervals)}
         /\ Cardinality(DOMAIN ret.data[row].day) = Len(ret.dateIntervals)
         /\ ret.data[row].day[args.daysToExpiry] = ExpirationCents(args, row)
====
